---- MODULE Spec2Model ----
(***************************************************************************)
(* A model of pythonrc.py: the ImprovedConsole input-line pipeline.        *)
(*                                                                         *)
(* A line of text is a sequence of tokens.  The whitespace tokens are the  *)
(* characters " ", "\t" and "\n"; the punctuation tokens are "#", ":",     *)
(* "(", ")", "[", "{"; the word tokens stand for a piece of Python text:   *)
(*    "if"   if True          (followed by ":" it opens a block)           *)
(*    "x"    x = 1            (binds x)                                    *)
(*    "z"    z = 1            (binds z)                                    *)
(*    "err"  raise Exception()  (a statement that raises when executed)    *)
(*    "\\e"  the edit trigger, "\\\\" the toggle-auto-indent trigger       *)
(***************************************************************************)
EXTENDS Integers, Sequences, FiniteSets, TLC

(***************************************************************************)
(* Bounds of the model.                                                    *)
(***************************************************************************)
\* total number of lines that enter the console in one behaviour
\* (lines typed at the prompt, lines pushed, lines of a replayed file)
MaxLines == 4

\* number of command lines (a trigger or a doc lookup) typed in one
\* behaviour of a session that types commands
MaxCmds == 1

\* the states complete is called with are 0..MaxState
MaxState == 3

(***************************************************************************)
(* str methods, on sequences of tokens.                                    *)
(***************************************************************************)
WS == {" ", "\t", "\n"}

Last(s) == s[Len(s)]

Range(s) == {s[i] : i \in 1..Len(s)}

\* number of leading elements of s that are in cs
LeadCount(s, cs) ==
    CHOOSE n \in 0..Len(s) :
        /\ \A i \in 1..n : s[i] \in cs
        /\ n = Len(s) \/ s[n + 1] \notin cs

\* number of trailing elements of s that are in cs
TrailCount(s, cs) ==
    CHOOSE n \in 0..Len(s) :
        /\ \A i \in (Len(s) - n + 1)..Len(s) : s[i] \in cs
        /\ n = Len(s) \/ s[Len(s) - n] \notin cs

\* s.lstrip(cs)
LStripSet(s, cs) == SubSeq(s, LeadCount(s, cs) + 1, Len(s))

\* s.rstrip(cs)
RStripSet(s, cs) == SubSeq(s, 1, Len(s) - TrailCount(s, cs))

\* s.strip(cs)
StripSet(s, cs) == RStripSet(LStripSet(s, cs), cs)

\* s.rstrip()
RStrip(s) == RStripSet(s, WS)

\* s.strip(): strips whitespace on both sides
Strip(s) == StripSet(s, WS)

\* s.lstrip()
LStrip(s) == LStripSet(s, WS)

\* s.strip('\n')
StripNL(s) == StripSet(s, {"\n"})

\* s.startswith(p)
StartsWith(s, p) == Len(s) >= Len(p) /\ SubSeq(s, 1, Len(p)) = p

\* s.endswith(p)
EndsWith(s, p) == Len(s) >= Len(p) /\ SubSeq(s, Len(s) - Len(p) + 1, Len(s)) = p

\* '\n'.join(lines)
RECURSIVE JoinNL(_)
JoinNL(lines) ==
    IF lines = <<>> THEN <<>>
    ELSE IF Len(lines) = 1 THEN lines[1]
    ELSE lines[1] \o <<"\n">> \o JoinNL(Tail(lines))

\* iterating over an open text file: the text cut after every "\n"; each
\* line keeps its "\n", a last line without one is yielded as it is
RECURSIVE FileLines(_)
FileLines(text) ==
    IF text = <<>> THEN <<>>
    ELSE IF \E i \in 1..Len(text) : text[i] = "\n"
         THEN LET k == CHOOSE i \in 1..Len(text) :
                           /\ text[i] = "\n"
                           /\ \A j \in 1..(i - 1) : text[j] # "\n"
              IN  <<SubSeq(text, 1, k)>> \o FileLines(SubSeq(text, k + 1, Len(text)))
         ELSE <<text>>

(***************************************************************************)
(* config (pythonrc.py:88-112)                                             *)
(***************************************************************************)
ONE_INDENT == <<" ", " ", " ", " ">>

EDIT_CMD == "\\e"

TOGGLE_AUTO_INDENT_CMD == "\\\\"

LIST_CMD == "\\l"

SH_EXEC == "!"

HELP_CMD == "\\h"

DOC_CMD == "?"

(***************************************************************************)
(* The statement executor: code.InteractiveConsole, which ImprovedConsole  *)
(* extends.  compile_command(source, symbol="single") answers, for a       *)
(* buffer of lines, "more" (the statement is incomplete), "syntax" (a      *)
(* SyntaxError, which includes every IndentationError) or "code".          *)
(***************************************************************************)
Openers == {"(", "[", "{"}

\* the tokens of a line that the tokenizer sees: the comment is cut off
CutComment(line) ==
    IF \E i \in 1..Len(line) : line[i] = "#"
    THEN SubSeq(line, 1, (CHOOSE i \in 1..Len(line) :
                              /\ line[i] = "#"
                              /\ \A j \in 1..(i - 1) : line[j] # "#") - 1)
    ELSE line

\* the width of the indentation of a line
IndentOf(line) == LeadCount(line, WS)

\* the code on a line: no comment, no surrounding whitespace
CodeOf(line) == Strip(CutComment(line))

IsHeader(toks) == toks = <<"if", ":">>

IsSimple(toks) == toks \in {<<"x">>, <<"z">>, <<"err">>}

\* keyword.iskeyword, on a line: "pass" is the keyword of the model
Keywords == {"pass"}

iskeyword(l) == Len(l) = 1 /\ l[1] \in Keywords

\* the lines _cmd_handler and process_help_cmd write for the executor start
\* with one of these tokens: dir(), help("...") with the closing token "\")",
\* help(...) with the closing token ")" and print(....__doc__) with the
\* closing token ".__doc__)"
CallOpen == {"dir()", "help(\"", "help(", "print("}

\* the argument of such a call, between the first and the last token
CallArg(toks) == SubSeq(toks, 2, Len(toks) - 1)

\* the names an argument reads when it is an expression: a name ("_" or
\* "foo"), an attribute of a name, or -h; no name if it is none of these
Refs(arg) ==
    IF Strip(arg) \in {<<"_">>, <<"foo">>} THEN {Strip(arg)[1]}
    ELSE IF Len(Strip(arg)) = 3 /\ Strip(arg)[2] = "."
            /\ {Strip(arg)[1], Strip(arg)[3]} \subseteq {"_", "foo"}
         THEN {Strip(arg)[1]}
    ELSE IF Strip(arg) = <<"-h">> THEN {"h"}
    ELSE {}

\* is the line one of these calls, well formed
IsCall(toks) ==
    /\ toks # <<>>
    /\ \/ toks = <<"dir()">>
       \/ Len(toks) >= 2 /\ toks[1] = "help(\"" /\ Last(toks) = "\")"
       \/ /\ Len(toks) >= 2
          /\ \/ toks[1] = "help(" /\ Last(toks) = ")"
             \/ toks[1] = "print(" /\ Last(toks) = ".__doc__)"
          /\ Refs(CallArg(toks)) # {}

\* an expression made of brackets only, such as () or (())
IsBrackets(toks) ==
    /\ toks # <<>>
    /\ \A i \in 1..Len(toks) : toks[i] \in Openers \cup {")"}

\* one bracket group directly after another is a call: ()() calls a tuple
HasCall(toks) ==
    \E i \in 1..(Len(toks) - 1) : toks[i] = ")" /\ toks[i + 1] = "("

\* scan the tokens of one physical line; st.brk is the stack of brackets
\* that are open, st.cur the tokens of the logical line so far
RECURSIVE ScanToks(_, _)
ScanToks(toks, st) ==
    IF toks = <<>> \/ st.bad THEN st
    ELSE LET t == Head(toks)
             bad == [st EXCEPT !.bad = TRUE]
         IN  IF t \in WS THEN ScanToks(Tail(toks), st)
             ELSE IF st.brk # <<>> /\ t \notin Openers \cup {")"} THEN bad
             ELSE IF t = "{" /\ st.cur # <<>> /\ Last(st.cur) = ")" THEN bad
             ELSE IF t \in Openers
                  THEN ScanToks(Tail(toks), [st EXCEPT !.cur = Append(@, t),
                                                       !.brk = Append(@, t)])
             ELSE IF t = ")"
                  THEN IF st.brk = <<>> \/ Last(st.brk) # "(" THEN bad
                       ELSE ScanToks(Tail(toks),
                                [st EXCEPT !.cur = Append(@, t),
                                           !.brk = SubSeq(@, 1, Len(@) - 1)])
             ELSE ScanToks(Tail(toks), [st EXCEPT !.cur = Append(@, t)])

\* the logical lines of a buffer: blank lines and comments are dropped, the
\* lines inside an open bracket are joined to the line that opened it
RECURSIVE Logical(_, _)
Logical(buf, st) ==
    IF buf = <<>> \/ st.bad THEN st
    ELSE LET Start(s, ind) == IF s.brk = <<>>
                              THEN [s EXCEPT !.ind = ind, !.cur = <<>>]
                              ELSE s
             Finish(s) == IF ~s.bad /\ s.brk = <<>>
                          THEN [s EXCEPT !.lls = Append(@, [ind  |-> s.ind,
                                                            toks |-> s.cur]),
                                         !.cur = <<>>]
                          ELSE s
             Step(c, ind) ==
                 IF st.brk = <<>> /\ c = <<>> THEN Logical(Tail(buf), st)
                 ELSE IF st.brk = <<>> /\ c[1] \in CallOpen
                 THEN Logical(Tail(buf),
                              Finish([Start(st, ind) EXCEPT !.cur = c]))
                 ELSE Logical(Tail(buf), Finish(ScanToks(c, Start(st, ind))))
         IN  Step(CodeOf(Head(buf)), IndentOf(Head(buf)))

LogicalLines(buf) ==
    LET Result(st) ==
            [lls  |-> IF st.brk # <<>>
                      THEN Append(st.lls, [ind |-> st.ind, toks |-> st.cur])
                      ELSE st.lls,
             open |-> st.brk # <<>>,
             bad  |-> st.bad]
    IN  Result(Logical(buf, [lls |-> <<>>, brk |-> <<>>, cur |-> <<>>,
                             ind |-> 0, bad |-> FALSE]))

\* the block structure: a header is followed by a deeper line, any other
\* line is at one of the enclosing levels, and only the first logical line
\* is at level 0 (symbol "single" compiles one statement)
RECURSIVE Blocks(_, _, _, _)
Blocks(lls, k, stack, expect) ==
    IF k > Len(lls) THEN TRUE
    ELSE LET Block(ll) ==
                 /\ IF expect THEN ll.ind > Last(stack)
                              ELSE ll.ind \in Range(stack)
                 /\ k > 1 => ll.ind # 0
                 /\ \/ IsHeader(ll.toks) \/ IsSimple(ll.toks)
                    \/ IsBrackets(ll.toks) \/ IsCall(ll.toks)
                 /\ Blocks(lls, k + 1,
                           IF expect THEN Append(stack, ll.ind)
                           ELSE SelectSeq(stack, LAMBDA v : v <= ll.ind),
                           IsHeader(ll.toks))
         IN  Block(lls[k])

\* codeop.compile_command("\n".join(buf), filename, "single")
Compile(buf) ==
    LET Verdict(l) ==
            IF l.bad \/ ~Blocks(l.lls, 1, <<0>>, FALSE) THEN "syntax"
            ELSE IF l.lls = <<>> THEN "code"
            ELSE IF l.open THEN "more"
            ELSE IF IsHeader(Last(l.lls).toks) THEN "more"
            ELSE IF /\ IsHeader(l.lls[1].toks)
                    /\ ~(Len(buf) >= 2 /\ Last(buf) = <<>>)
                 THEN "more"
            ELSE "code"
    IN  Verdict(LogicalLines(buf))

\* the statements of a compiled buffer, in execution order (every block is
\* an "if True:", so every statement of it is executed)
Stmts(buf) ==
    LET Toks(lls) == [i \in 1..Len(lls) |-> lls[i].toks]
    IN  SelectSeq(Toks(LogicalLines(buf).lls), LAMBDA t : ~IsHeader(t))

\* does executing the statement raise: the raise statement, the call of a
\* tuple (TypeError), a name that is not bound (NameError) and an attribute
\* that the value of a name does not have (AttributeError)
Raises(toks, ns) ==
    \/ toks = <<"err">>
    \/ HasCall(toks)
    \/ /\ IsCall(toks)
       /\ toks[1] \in {"help(", "print("}
       /\ \/ ~(Refs(CallArg(toks)) \subseteq ns)
          \/ Len(Strip(CallArg(toks))) = 3

\* the name a statement binds: an expression statement is printed by
\* sys.displayhook, which binds '_' (pythonrc.py:411)
BoundName(toks) == IF IsBrackets(toks) \/ IsCall(toks) THEN "_" ELSE toks[1]

\* exec(code, locals): the statements run in order and stop at the first
\* one that raises; .ran are the statements started
RECURSIVE ExecFrom(_, _, _)
ExecFrom(stmts, i, ns) ==
    IF i > Len(stmts) THEN [error |-> FALSE, ran |-> stmts, locals |-> ns]
    ELSE IF Raises(stmts[i], ns)
         THEN [error |-> TRUE, ran |-> SubSeq(stmts, 1, i), locals |-> ns]
    ELSE ExecFrom(stmts, i + 1, ns \cup {BoundName(stmts[i])})

Exec(stmts, locals) == ExecFrom(stmts, 1, locals)

(***************************************************************************)
(* The state of the program.                                               *)
(***************************************************************************)
VARIABLES
    session_history,    \* ImprovedConsole.session_history
    buffer,             \* InteractiveConsole.buffer: the pending statement
    _indent,            \* ImprovedConsole._indent: the tracked indent
    locals,             \* InteractiveConsole.locals: the names bound
    _skip_subsequent,   \* ImprovedConsole._skip_subsequent
    AUTO_INDENT,        \* config.AUTO_INDENT
    pre_input_hook,     \* is auto_indent_hook installed in readline
    POST_EDIT_PRINT_COMMENTS,   \* config.POST_EDIT_PRINT_COMMENTS
    stderr,             \* what the current handler wrote, oldest first
    executed,           \* the statements the current handler executed
    pc,                 \* where the interactive loop is
    line,               \* the line raw_input returned, to be pushed
    more,               \* what the last push of the loop returned
    replay,             \* the frame of _exec_from_file while it runs
    edit,               \* what process_edit_cmd did in the current handler
    used,               \* the number of lines that entered the console
    driver,             \* who calls the console: the interactive loop that edits
                        \* ("interact") or types commands ("router"), interact
                        \* from its start to the exit ("session"), commands
                        \* that name objects ("objects"), lines that
                        \* meet several rules ("precedence"), the unit
                        \* tests ("tests"), readline ("completer"), or
                        \* two processes that start and exit ("history")
    calls,              \* what the current handler called outside the
                        \* console, oldest first: [op, arg]
    reads,              \* the lines raw_input read in the current handler
    cmds,               \* the number of command lines typed
    found,              \* the last call of lookup: the name and the result
    retries,            \* the local 'retries' of ImprovedConsole.interact
    starts,             \* the number of calls of InteractiveConsole.interact
    matches,            \* ImprovedCompleter.matches: is it None, else the list
    completed,          \* the last call of ImprovedCompleter.complete
    histfile,           \* the file config.HISTFILE names: does it exist, and
                        \* its entries, oldest first
    sessions            \* the processes that share the file: where each is,
                        \* the history of its readline and len_at_start

vars == <<session_history, buffer, _indent, locals, _skip_subsequent,
          AUTO_INDENT, pre_input_hook, POST_EDIT_PRINT_COMMENTS, stderr,
          executed, pc, line, more, replay, edit, used, driver, calls,
          reads, cmds, found, retries, starts, matches, completed,
          histfile, sessions>>

\* the console as one record, for the methods below
Console ==
    [session_history |-> session_history, buffer |-> buffer,
     indent |-> _indent, locals |-> locals, skip |-> _skip_subsequent,
     stderr |-> stderr, executed |-> executed, calls |-> calls]

SetConsole(c) ==
    /\ session_history' = c.session_history
    /\ buffer' = c.buffer
    /\ _indent' = c.indent
    /\ locals' = c.locals
    /\ _skip_subsequent' = c.skip
    /\ stderr' = c.stderr
    /\ executed' = c.executed
    /\ calls' = c.calls

(***************************************************************************)
(* The methods of ImprovedConsole and of its base class.                   *)
(***************************************************************************)
\* ImprovedConsole.write / writeline: one entry per call, naming what is
\* written
Write(c, what) == [c EXCEPT !.stderr = Append(@, what)]

\* a call that leaves the console: of a handler of self.commands, of print,
\* os.system, os.kill, os.chdir, subprocess.run, webbrowser.open,
\* readline.add_history
Call(c, op, arg) == [c EXCEPT !.calls = Append(@, [op |-> op, arg |-> arg])]

\* InteractiveConsole.showsyntaxerror: not overridden by ImprovedConsole
ShowSyntaxError(c) == Write(c, "SyntaxError")

\* a showtraceback that does not record the error
ShowTraceback_NoSkip(c) == Write(c, "Traceback")

\* ImprovedConsole.showtraceback
ShowTraceback(c) == Write([c EXCEPT !.skip = TRUE], "Traceback")

\* InteractiveConsole.runcode
RunCode(c, buf) ==
    LET Ran(r) == [c EXCEPT !.locals = r.locals, !.executed = @ \o r.ran]
        After(r) == IF r.error THEN ShowTraceback(Ran(r)) ELSE Ran(r)
    IN  After(Exec(Stmts(buf), c.locals))

\* InteractiveConsole.runsource, on the lines that are joined to the source
RunSource(c, buf) ==
    LET Run(v) ==
            IF v = "syntax" THEN [more |-> FALSE, c |-> ShowSyntaxError(c)]
            ELSE IF v = "more" THEN [more |-> TRUE, c |-> c]
            ELSE [more |-> FALSE, c |-> RunCode(c, buf)]
    IN  Run(Compile(buf))

\* a resetbuffer loop that writes every line of the buffer
CollapseFrom_KeepAll(buf, previous) == buf

\* the loop of resetbuffer: runs of blank lines are written once
RECURSIVE CollapseFrom(_, _)
CollapseFrom(buf, previous) ==
    IF buf = <<>> THEN <<>>
    ELSE LET stripped == Strip(Head(buf))
         IN  (IF stripped # <<>> \/ stripped # previous
              THEN <<Head(buf)>> ELSE <<>>)
             \o CollapseFrom(Tail(buf), stripped)

\* ImprovedConsole.resetbuffer
ResetBuffer(c) ==
    [c EXCEPT !.indent = <<>>,
              !.session_history = @ \o CollapseFrom(c.buffer, <<>>),
              !.buffer = <<>>]

\* an opener test that forgets the colon
EndsWithOpener_NoColon(l) ==
    \E t \in {"[", "{", "("} : EndsWith(l, <<t>>)

\* line.endswith((':', '[', '{', '('))
EndsWithOpener(l) ==
    \E t \in {":", "[", "{", "("} : EndsWith(l, <<t>>)

\* a push that indents after every line of an incomplete statement
Push_AlwaysIndent(c, l) ==
    LET After(r) ==
            IF r.more
            THEN [more |-> TRUE,
                  c    |-> [r.c EXCEPT !.indent = @ \o ONE_INDENT]]
            ELSE [more |-> FALSE,
                  c    |-> [ResetBuffer(r.c) EXCEPT !.indent = <<>>]]
    IN  After(RunSource([c EXCEPT !.buffer = Append(@, l)],
                        Append(c.buffer, l)))

\* a push that indents once for every opening token of the line
Push_PerOpener(c, l) ==
    LET After(r) ==
            IF r.more
            THEN [more |-> TRUE,
                  c    |-> [r.c EXCEPT !.indent =
                               @ \o [i \in 1..(Len(ONE_INDENT)
                                       * Cardinality({j \in 1..Len(l) :
                                            l[j] \in {":", "[", "{", "("}}))
                                     |-> " "]]]
            ELSE [more |-> FALSE,
                  c    |-> [ResetBuffer(r.c) EXCEPT !.indent = <<>>]]
    IN  After(RunSource([c EXCEPT !.buffer = Append(@, l)],
                        Append(c.buffer, l)))

\* ImprovedConsole.push, with InteractiveConsole.push inside it
Push(c, l) ==
    LET After(r) ==
            IF r.more
            THEN [more |-> TRUE,
                  c    |-> IF EndsWithOpener(l)
                           THEN [r.c EXCEPT !.indent = @ \o ONE_INDENT]
                           ELSE r.c]
            ELSE [more |-> FALSE,
                  c    |-> [ResetBuffer(r.c) EXCEPT !.indent = <<>>]]
    IN  After(RunSource([c EXCEPT !.buffer = Append(@, l)],
                        Append(c.buffer, l)))

\* ImprovedConsole.commands: the triggers
Triggers == {EDIT_CMD, LIST_CMD, SH_EXEC, HELP_CMD, TOGGLE_AUTO_INDENT_CMD}

\* the handler self.commands holds for a trigger
Handler(cmd) ==
    CASE cmd = EDIT_CMD -> "process_edit_cmd"
      [] cmd = LIST_CMD -> "process_list_cmd"
      [] cmd = SH_EXEC  -> "process_sh_cmd"
      [] cmd = HELP_CMD -> "process_help_cmd"
      [] cmd = TOGGLE_AUTO_INDENT_CMD -> "toggle_auto_indent"

\* method.__doc__ of the handler of a trigger, as _doc_to_usage writes it
Doc(cmd) ==
    CASE cmd = EDIT_CMD -> "process_edit_cmd.__doc__"
      [] cmd = LIST_CMD -> "process_list_cmd.__doc__"
      [] cmd = SH_EXEC  -> "process_sh_cmd.__doc__"
      [] cmd = TOGGLE_AUTO_INDENT_CMD -> "toggle_auto_indent.__doc__"

\* the handlers __init__ wraps in _doc_to_usage: process_help_cmd is not
Decorated == Triggers \ {HELP_CMD}

\* a match that gives way to the doc suffix
Matches_UnlessDoc(l) ==
    l # <<>> /\ l[1] \in Triggers /\ ~EndsWith(l, <<DOC_CMD>>)

\* commands_re.match(line): a trigger at the very start of the line
Matches(l) == l # <<>> /\ l[1] \in Triggers

\* the group 'args' of commands_re: after the trigger and the whitespace
\* that follows it, everything up to the first "("
CmdArgs(l) ==
    LET rest == LStrip(Tail(l))
    IN  SubSeq(rest, 1, LeadCount(rest, Range(rest) \ {"("}))

\* is the line the edit command without an argument
IsEditNoArg(l) ==
    Matches(l) /\ l[1] = EDIT_CMD /\ Strip(CmdArgs(l)) = <<>>

\* a toggle that only disables
ToggleAutoIndent_Off(auto) == FALSE

\* ImprovedConsole.toggle_auto_indent, on the flag; the hook installed
\* afterwards is the flag's new value
ToggleAutoIndent(auto) == ~auto

\* a dedent that drops the whole tracked indent
DropOneIndent_All(s) == <<>>

\* s[:-len(config.ONE_INDENT)]
DropOneIndent(s) ==
    SubSeq(s, 1, IF Len(s) > Len(ONE_INDENT) THEN Len(s) - Len(ONE_INDENT) ELSE 0)

\* line[:line.index(line.lstrip()[0])]
LeadingSpace(l) == SubSeq(l, 1, LeadCount(l, WS))

\* arg.startswith(('-h', '--help'))
IsUsageFlag(arg) == StartsWith(arg, <<"-h">>) \/ StartsWith(arg, <<"--help">>)

\* text.partition('.')[0]
Partition(txt) == SubSeq(txt, 1, LeadCount(txt, Range(txt) \ {"."}))

\* the objects names are bound to, each written as the tokens of its
\* name: the module os, its attributes os.path (a module) and os.sep (a
\* string), the integers 0 (bound to "n") and 1 (every other name), None
Value(name) ==
    CASE name = "os" -> <<"os">>
      [] name = "n"  -> <<"0">>
      [] OTHER       -> <<"1">>

\* self.locals.get(name): None for a name that is not bound
Get(name, ns) ==
    IF Len(name) = 1 /\ name[1] \in ns THEN Value(name[1]) ELSE <<"None">>

\* getattr(obj, name, default)
GetAttr(obj, name, default) ==
    CASE obj = <<"os">> /\ name = <<"pa", "th">> -> <<"os", ".", "pa", "th">>
      [] obj = <<"os">> /\ name = <<"sep">>       -> <<"/">>
      [] obj \in {<<"0">>, <<"1">>} /\ name = <<"real">> -> obj
      [] obj \in {<<"0">>, <<"1">>} /\ name = <<"imag">> -> <<"0">>
      [] OTHER -> default

\* bool(obj)
Truthy(obj) == obj \notin {<<"None">>, <<"0">>}

\* name.partition('.')[2]
Components(name) ==
    SubSeq(name, LeadCount(name, Range(name) \ {"."}) + 2, Len(name))

\* ImprovedConsole.lookup(name, namespace); ns is self.locals
RECURSIVE lookup(_, _, _)
lookup(name, namespace, ns) ==
    LET obj == IF Truthy(namespace)
               THEN GetAttr(namespace, Partition(name), namespace)
               ELSE Get(Partition(name), ns)
    IN  IF Components(name) # <<>>
        THEN lookup(Components(name), obj, ns)
        ELSE obj

\* does inspect.getsourcefile(obj) return a file: it does for a module
\* written in Python, and raises TypeError for a string, an integer or None
HasSource(obj) == obj \in {<<"os">>, <<"os", ".", "pa", "th">>}

\* an editor command without the line number option
EditorOnSource_NoLine(obj) == <<"EDITOR">> \o obj \o <<".py">>

\* the command an edit with an argument hands to os.system
\* (pythonrc.py:608-612, 624): the editor, the line number option, and the
\* source file of the object
EditorOnSource(obj) == <<"EDITOR", "LINE_NUM_OPT">> \o obj \o <<".py">>

\* process_edit_cmd with an argument (pythonrc.py:605-624): the editor is
\* opened on the source file of the object the argument names; the
\* TypeError of an object without one is written; an argument that names
\* nothing, or a false object, is the file the editor opens
ProcessEditArg(c, arg) ==
    IF Truthy(lookup(arg, <<"None">>, c.locals))
    THEN IF HasSource(lookup(arg, <<"None">>, c.locals))
         THEN Call(c, "os.system",
                   EditorOnSource(lookup(arg, <<"None">>, c.locals)))
         ELSE Write(c, "TypeError")
    ELSE Call(c, "os.system", <<"EDITOR">> \o arg)

\* process_list_cmd: the source lines of the object are written, or the
\* TypeError of an object without them
ProcessListCmd(c, arg) ==
    IF arg = <<>> THEN Write(c, "source list command requires an argument")
    ELSE IF HasSource(lookup(arg, <<"None">>, c.locals))
    THEN Write(c, "source lines")
    ELSE Write(c, "TypeError")

\* shlex.split(cmd)
Split(cmd) == SelectSeq(cmd, LAMBDA t : t \notin WS)

\* the programs subprocess.run finds
Programs == {"ls"}

\* the directories os.chdir finds: ${HOME} and /tmp
Directories == { <<"HOME">>, <<"/", "tmp">> }

\* a cd that binds '_'
Chdir_Rebind(c, path) ==
    [Call(c, "os.chdir", path) EXCEPT !.locals = @ \cup {"_"}]

\* os.chdir(path) inside the try of process_sh_cmd (pythonrc.py:668-669,
\* 675-676): the error of a directory that does not exist is shown
Chdir(c, path) ==
    IF path \in Directories THEN Call(c, "os.chdir", path)
    ELSE ShowTraceback(Call(c, "os.chdir", path))

\* process_sh_cmd, when SSH_CONNECTION is not set
ProcessShCmd(c, cmd) ==
    IF cmd = <<>> THEN Call(c, "os.kill", <<"SIGSTOP">>)
    ELSE IF Split(cmd)[1] = "cd"
    THEN Chdir(c, IF Tail(Split(cmd)) = <<>> THEN <<"HOME">>
                  ELSE Tail(Split(cmd)))
    ELSE IF Split(cmd)[1] \in Programs
    THEN [Call(Call(c, "subprocess.run", Split(cmd)), "print", <<"stdout">>)
             EXCEPT !.locals = @ \cup {"_"}]
    ELSE ShowTraceback(c)

\* the line process_help_cmd pushes for a keyword
HelpKeyword(arg) == <<"help(\"">> \o arg \o <<"\")">>

\* the line process_help_cmd pushes for any other argument
HelpObject(arg) == <<"help(">> \o arg \o <<")">>

\* process_help_cmd: its argument is not stripped; the handler of a trigger
\* is called with '-h', and for the trigger of help itself that is this
\* method, which pushes help(-h)
ProcessHelpCmd(c, arg) ==
    IF arg = <<>> THEN Call(c, "print", <<"__doc__">>)
    ELSE IF iskeyword(arg) THEN Push(c, HelpKeyword(arg)).c
    ELSE IF Len(arg) = 1 /\ arg[1] \in Decorated
    THEN Write(Call(c, Handler(arg[1]), <<"-h">>), Doc(arg[1]))
    ELSE IF arg = <<HELP_CMD>>
    THEN Push(Call(c, Handler(HELP_CMD), <<"-h">>), HelpObject(<<"-h">>)).c
    ELSE Push(c, HelpObject(arg)).c

\* _doc_to_usage around a handler that leaves config.AUTO_INDENT alone
\* (process_edit_cmd with an argument, process_list_cmd, process_sh_cmd)
DocToUsage(c, cmd, args) ==
    IF IsUsageFlag(Strip(args)) THEN Write(c, Doc(cmd))
    ELSE IF cmd = EDIT_CMD THEN ProcessEditArg(c, Strip(args))
    ELSE IF cmd = LIST_CMD THEN ProcessListCmd(c, Strip(args))
    ELSE ProcessShCmd(c, Strip(args))

\* self.commands[command](args): the console and config.AUTO_INDENT after
\* the handler of the trigger has run
Dispatch(c, cmd, args, auto) ==
    IF cmd = TOGGLE_AUTO_INDENT_CMD
    THEN IF IsUsageFlag(Strip(args))
         THEN [c |-> Write(Call(c, Handler(cmd), args), Doc(cmd)), auto |-> auto]
         ELSE [c    |-> Call(Call(c, Handler(cmd), args), "print",
                             <<"# Auto-Indent has been toggled">>),
               auto |-> ToggleAutoIndent(auto)]
    ELSE IF cmd = HELP_CMD
    THEN [c |-> ProcessHelpCmd(Call(c, Handler(cmd), args), args), auto |-> auto]
    ELSE [c |-> DocToUsage(Call(c, Handler(cmd), args), cmd, args), auto |-> auto]

\* s.replace(a, b), on tokens
Replace(s, a, b) == [i \in 1..Len(s) |-> IF s[i] = a THEN b ELSE s[i]]

\* line.rstrip(f'{config.DOC_CMD}.(')
DocTarget(l) == RStripSet(l, {DOC_CMD, ".", "("})

\* a query term that keeps the dots
SearchTerm_Dots(l) == DocTarget(l)

\* the term of the query webbrowser.open is called with (pythonrc.py:458)
SearchTerm(l) == Replace(DocTarget(l), ".", "+")

\* a rewriting that does not look for keywords
DocLine_NoKeyword(target) ==
    IF target = <<>> THEN <<"dir()">>
    ELSE <<"print(">> \o target \o <<".__doc__)">>

\* the line a doc lookup is rewritten to (pythonrc.py:462-468)
DocLine(target) ==
    IF target = <<>> THEN <<"dir()">>
    ELSE IF iskeyword(target) THEN <<"help(\"">> \o target \o <<"\")">>
    ELSE <<"print(">> \o target \o <<".__doc__)">>

\* ImprovedConsole._cmd_handler, for a line that is not the edit command
\* without an argument: the line to push, the console and
\* config.AUTO_INDENT afterwards
CmdHandler(c, l, auto) ==
    IF Matches(l)
    THEN [line |-> <<>>,
          c    |-> Dispatch(c, l[1], CmdArgs(l), auto).c,
          auto |-> Dispatch(c, l[1], CmdArgs(l), auto).auto]
    ELSE IF EndsWith(l, <<DOC_CMD>>)
    THEN IF EndsWith(l, <<DOC_CMD, DOC_CMD>>)
         THEN [line |-> <<>>,
               c    |-> Call(c, "webbrowser.open", SearchTerm(l)),
               auto |-> auto]
         ELSE [line |-> DocLine(DocTarget(l)), c |-> c, auto |-> auto]
    ELSE IF auto /\ (StartsWith(l, ONE_INDENT) \/ c.indent # <<>>)
    THEN IF Strip(l) # <<>>
         THEN [line |-> l,
               c    |-> [c EXCEPT !.indent = LeadingSpace(l)],
               auto |-> auto]
         ELSE [line |-> DropOneIndent(c.indent),
               c    |-> [c EXCEPT !.indent = DropOneIndent(c.indent)],
               auto |-> auto]
    ELSE IF StartsWith(l, <<"%">>)
    THEN [line |-> l, c |-> Write(c, "Y U NO LIKE ME?"), auto |-> auto]
    ELSE [line |-> l, c |-> c, auto |-> auto]

\* a count that starts at two after an empty line
EmptyLines_Two(l) == IF l # <<>> THEN 3 ELSE 2

\* empty_lines = 3 if line else 1
EmptyLines(l) == IF l # <<>> THEN 3 ELSE 1

\* the loop of ImprovedConsole.raw_input over the lines rs the user types,
\* when line i was read last: the index of the line the loop ends with, or
\* Len(rs) + 1 when the loop reads on after the last line of rs
RECURSIVE ReadOn(_, _, _, _)
ReadOn(rs, i, empty_lines, auto) ==
    IF auto \/ empty_lines >= 3 THEN i
    ELSE IF i = Len(rs) THEN Len(rs) + 1
    ELSE ReadOn(rs, i + 1,
                empty_lines + (IF rs[i + 1] = <<>> THEN 1 ELSE 3), auto)

\* are rs the lines one call of raw_input reads: the loop ends with the
\* last of them
IsRead(rs, auto) ==
    rs # <<>> /\ ReadOn(rs, 1, EmptyLines(rs[1]), auto) = Len(rs)

\* an artifact in which the history is not commented
Artifact_NoComment(history) ==
    JoinNL([i \in 1..Len(history) |-> StripNL(history[i])])

\* the artifact of process_edit_cmd: the text _mktemp_buffer writes
Artifact(history) ==
    JoinNL([i \in 1..Len(history) |->
               LET s == StripNL(history[i])
               IN  IF Strip(s) # <<>> THEN <<"#", " ">> \o s ELSE <<>>])

\* a capture that appends the line without its newline
Capture_Stripped(c, stmt) ==
    [c EXCEPT !.session_history = Append(@, StripNL(stmt))]

\* the line replaces SessionHistory
Capture_Replace(c, stmt) == [c EXCEPT !.session_history = <<stmt>>]

\* self.session_history.append(stmt) (pythonrc.py:566)
Capture(c, stmt) == [c EXCEPT !.session_history = Append(@, stmt)]

\* a replay that passes every blank line on
SkipBlank_Never(stripped, previous) == FALSE

\* stripped == previous == '' (pythonrc.py:541): the line is blank and so
\* was the line before it, comments not counted
SkipBlank(stripped, previous) == stripped = <<>> /\ previous = <<>>

\* a replay that adds to the history of readline whatever skip_history is
AddHistory_Always(c, ln, skip_history) == Call(c, "readline.add_history", ln)

\* if not skip_history: readline.add_history(line)
AddHistory(c, ln, skip_history) ==
    IF skip_history THEN c ELSE Call(c, "readline.add_history", ln)

\* one pass of the loop of _exec_from_file, on the line stmt; rp is the
\* frame (the arguments and the local 'previous')
ExecFromFileLine(c, rp, stmt) ==
    LET stripped == Strip(stmt)
    IN  IF SkipBlank(stripped, rp.previous)
        THEN [c |-> c, rp |-> rp]
        ELSE IF StartsWith(stripped, <<"#">>)
        THEN [c  |-> IF rp.print_comments /\ ~rp.quiet
                     THEN Write(c, "comment") ELSE c,
              rp |-> rp]
        ELSE LET ln == StripNL(stmt)
                 Flushed(r) == IF r.more THEN r.c ELSE ResetBuffer(r.c)
                 Echo(c1) == IF ~rp.quiet THEN Write(c1, "statement") ELSE c1
                 Keep(c2) == IF c2.skip
                             THEN Capture(c2, stmt)
                             ELSE AddHistory([c2 EXCEPT !.buffer = Append(@, ln)],
                                             ln, rp.skip_history)
             IN  [c  |-> Keep(Echo(IF ~c.skip /\ ln # <<>> /\ ln[1] \notin WS
                                   THEN Flushed(RunSource(c, c.buffer))
                                   ELSE c)),
                  rp |-> [rp EXCEPT !.previous = stripped]]

(***************************************************************************)
(* ImprovedCompleter (pythonrc.py:118-231).  A line, a text and a          *)
(* candidate are sequences of tokens; a name that a shorter text can be    *)
(* completed to is more than one token ("Unsupported", "Operation").       *)
(***************************************************************************)
\* the None that ends self.matches and that complete returns after the last
\* candidate
None == <<"None">>

\* line.isspace()
IsSpace(l) == l # <<>> /\ Range(l) \subseteq WS

\* line.split(): the words of a line, each a sequence of tokens
RECURSIVE SplitWords(_, _)
SplitWords(l, word) ==
    IF l = <<>> THEN (IF word = <<>> THEN <<>> ELSE <<word>>)
    ELSE IF Head(l) \in WS
    THEN (IF word = <<>> THEN <<>> ELSE <<word>>) \o SplitWords(Tail(l), <<>>)
    ELSE SplitWords(Tail(l), Append(word, Head(l)))

\* exc_cls.__subclasses__(): UnsupportedOperation derives from OSError and
\* from ValueError
Subclasses(exc_cls) ==
    CASE exc_cls = "Exception"  -> <<"OSError", "ValueError">>
      [] exc_cls = "OSError"    -> <<"UnsupportedOperation">>
      [] exc_cls = "ValueError" -> <<"UnsupportedOperation">>
      [] OTHER                  -> <<>>

\* exc.__name__, in tokens
ClassName(exc) ==
    IF exc = "UnsupportedOperation" THEN <<"Unsupported", "Operation">>
    ELSE <<exc>>

\* ImprovedCompleter.exceptions: the names of the direct subclasses, then
\* those of the subclasses of each of them
RECURSIVE exceptions(_)
exceptions(exc_cls) ==
    LET RECURSIVE Extend(_)
        Extend(subs) ==
            IF subs = <<>> THEN <<>>
            ELSE exceptions(Head(subs)) \o Extend(Tail(subs))
        Names(subs) == [i \in 1..Len(subs) |-> ClassName(subs[i])] \o Extend(subs)
    IN  Names(Subclasses(exc_cls))

\* name.replace(striptext, ''): every occurrence is removed
RECURSIVE RemoveAll(_, _)
RemoveAll(name, striptext) ==
    IF name = <<>> THEN <<>>
    ELSE IF StartsWith(name, striptext)
    THEN RemoveAll(SubSeq(name, Len(striptext) + 1, Len(name)), striptext)
    ELSE <<Head(name)>> \o RemoveAll(Tail(name), striptext)

\* ImprovedCompleter.startswith_filter
startswith_filter(txt, names, striptext) ==
    LET Strip1(filtered) ==
            IF striptext # <<>>
            THEN [i \in 1..Len(filtered) |-> RemoveAll(filtered[i], striptext)]
            ELSE filtered
    IN  Strip1(SelectSeq(names, LAMBDA name : StartsWith(name, txt)))

\* ImprovedCompleter.pkglist, modlist and pkg_contents('pkg'), in the order
\* they are iterated in
pkglist == {<<"pkg">>}

modlist == << <<"os">>, <<"pkg">>, <<"sys">> >>

pkg_contents(pkg) ==
    << <<"pkg", ".", "mod">>, <<"pkg", ".", "sub">>,
       <<"pkg", ".", "sub", ".", "mod">> >>

\* the modules importlib.import_module finds, and the __all__ or dir() of
\* each of them
Importable == { <<"os">>, <<"pkg">>, <<"pkg", ".", "sub">> }

ModuleNames(namespace) ==
    IF namespace = <<"os">> THEN << <<"pa", "th">>, <<"sep">> >>
    ELSE IF namespace = <<"pkg">> THEN << <<"mod">>, <<"sub">> >>
    ELSE << <<"mod">> >>

\* the files of the file system, the directories among them, and
\* ImprovedCompleter.get_path_matches: glob.iglob(f'{text}**') finds the
\* files whose name starts with the text and has no further separator
Files == { <<"/", "tmp">>, <<"/", "tmp", "/", "a", ".", "b">> }

Dirs == { <<"/", "tmp">> }

get_path_matches(txt) ==
    LET Item(f) == IF f \in Dirs THEN f \o <<"/">> ELSE f
        Found == { f \in Files :
                     /\ StartsWith(f, txt)
                     /\ "/" \notin Range(SubSeq(f, Len(txt) + 1, Len(f))) }
        RECURSIVE Listed(_)
        Listed(fs) ==
            IF fs = {} THEN <<>>
            ELSE LET f == CHOOSE g \in fs : \A h \in fs : Len(g) <= Len(h)
                 IN  <<Item(f)>> \o Listed(fs \ {f})
    IN  Listed(Found)

\* ImprovedCompleter.get_import_matches: the list returned, whether None is
\* returned instead, and the exception raised instead
get_import_matches(txt, words) ==
    LET List(items) == [items |-> items, none |-> FALSE, raised |-> ""]
    IN  IF \/ Len(words) = 2 /\ txt = <<>>
           \/ Len(words) = 3 /\ txt \in {<<"imp">>, <<"import">>}
        THEN List(<< <<"import", " ">> >>)
        ELSE IF Len(words) <= 2
        THEN IF Partition(txt) \in pkglist
             THEN List(startswith_filter(txt, pkg_contents(Partition(txt)), <<>>))
             ELSE List(startswith_filter(txt, modlist, <<>>))
        ELSE IF words[3] = <<"import">>
        THEN IF /\ Partition(words[2]) \in pkglist
                /\ startswith_filter(words[2] \o <<".">> \o txt,
                                     pkg_contents(Partition(words[2])),
                                     words[2] \o <<".">>) # <<>>
             THEN List(startswith_filter(words[2] \o <<".">> \o txt,
                                         pkg_contents(Partition(words[2])),
                                         words[2] \o <<".">>))
             ELSE IF words[2] \in Importable
             THEN List(startswith_filter(txt, ModuleNames(words[2]), <<>>))
             ELSE [items |-> <<>>, none |-> FALSE,
                   raised |-> "ModuleNotFoundError"]
        ELSE [items |-> <<>>, none |-> TRUE, raised |-> ""]

\* the attributes of the one value a name of the namespace is bound to
Attrs == << <<"imag">>, <<"real">> >>

\* rlcompleter.Completer.attr_matches: the text is expr.attr, and an expr
\* that is not a dotted name or that cannot be evaluated has no matches
attr_matches(txt, ns) ==
    LET dot == Len(txt) - TrailCount(txt, Range(txt) \ {"."})
        Owned(expr, attr) ==
            IF Len(expr) = 1 /\ expr[1] \in ns
            THEN [i \in 1..Len(startswith_filter(attr, Attrs, <<>>)) |->
                     expr \o <<".">> \o startswith_filter(attr, Attrs, <<>>)[i]]
            ELSE <<>>
    IN  Owned(SubSeq(txt, 1, dot - 1), SubSeq(txt, dot + 1, Len(txt)))

\* rlcompleter.Completer.global_matches: the keywords, then the names of
\* the namespace and the builtins, each name once
global_matches(txt, ns) ==
    startswith_filter(txt,
        << <<"except", " ">>, <<"pass">>, <<"raise", " ">> >>
        \o (IF "foo" \in ns THEN << <<"foo">> >> ELSE <<>>)
        \o << <<"print", "(">> >>, <<>>)

\* a first branch that looks for the dot before the path separator
Populate_AttributeFirst(txt, l, ns) ==
    LET List(items) == [items |-> items, none |-> FALSE, raised |-> ""]
    IN  IF StartsWith(l, <<"from", " ">>) \/ StartsWith(l, <<"import", " ">>)
        THEN get_import_matches(txt, SplitWords(l, <<>>))
        ELSE IF SplitWords(l, <<>>)[1] \in {<<"raise">>, <<"except">>}
        THEN List(startswith_filter(LStripSet(txt, {"("}),
                                    exceptions("Exception"), <<>>))
        ELSE IF "." \in Range(txt) THEN List(attr_matches(txt, ns))
        ELSE IF "/" \in Range(txt) THEN List(get_path_matches(txt))
        ELSE List(global_matches(txt, ns))

\* the first branch of complete at state 0 (pythonrc.py:204-216): what
\* self.matches is assigned
Populate(txt, l, ns) ==
    LET List(items) == [items |-> items, none |-> FALSE, raised |-> ""]
    IN  IF StartsWith(l, <<"from", " ">>) \/ StartsWith(l, <<"import", " ">>)
        THEN get_import_matches(txt, SplitWords(l, <<>>))
        ELSE IF SplitWords(l, <<>>)[1] \in {<<"raise">>, <<"except">>}
        THEN List(startswith_filter(LStripSet(txt, {"("}),
                                    exceptions("Exception"), <<>>))
        ELSE IF "/" \in Range(txt) THEN List(get_path_matches(txt))
        ELSE IF "." \in Range(txt) THEN List(attr_matches(txt, ns))
        ELSE List(global_matches(txt, ns))

\* the second branch of complete at state 0 (pythonrc.py:218-224), for a
\* list that ends in None
Expand(items) ==
    IF items # <<>> /\ Last(items) = None
    THEN IF items[1] # <<>> /\ Last(items[1]) = "/"
         THEN get_path_matches(items[1])
         ELSE IF items[1] \in {<<"raise">>, <<"except">>}
         THEN exceptions("Exception")
         ELSE items
    ELSE items

\* a candidate for the blank line that is returned at every state
IndentCandidate_Always(state) == ONE_INDENT

\* return None if state else config.ONE_INDENT
IndentCandidate(state) == IF state # 0 THEN None ELSE ONE_INDENT

\* self.matches[state], for self.matches m
Index(m, state) ==
    IF m.none THEN [matches |-> m, value |-> None, raised |-> "TypeError"]
    ELSE IF state + 1 <= Len(m.items)
    THEN [matches |-> m, value |-> m.items[state + 1], raised |-> ""]
    ELSE [matches |-> m, value |-> None, raised |-> ""]

\* ImprovedCompleter.complete(text, state, line), with self.matches m, the
\* line buffer of readline buf and the namespace ns: self.matches
\* afterwards, the value returned and the exception raised instead
Complete(m, txt, state, l, buf, ns) ==
    LET Assigned(r) ==
            IF r.raised # "" THEN [matches |-> m, value |-> None,
                                   raised |-> r.raised]
            ELSE IF r.none THEN [matches |-> [none |-> TRUE, items |-> <<>>],
                                 value |-> None, raised |-> "AttributeError"]
            ELSE Index([none |-> FALSE,
                        items |-> Append(Expand(r.items), None)], state)
        On(ln) ==
            IF ln = <<>> \/ IsSpace(ln)
            THEN [matches |-> m, value |-> IndentCandidate(state),
                  raised |-> ""]
            ELSE IF state = 0 THEN Assigned(Populate(txt, ln, ns))
            ELSE Index(m, state)
    IN  On(IF l = <<>> THEN buf ELSE l)

(***************************************************************************)
(* The lines of the model.                                                 *)
(***************************************************************************)
\* the lines typed at the prompt
InputLines ==
    { <<>>,
      <<"x">>,
      <<"err">>,
      <<"if", ":">>,
      ONE_INDENT \o <<"x">>,
      <<"(">>,
      <<EDIT_CMD>>,
      <<TOGGLE_AUTO_INDENT_CMD>> }

\* the lines typed in a session that also types commands
RouteLines ==
    { <<>>,
      <<"if", ":">>,
      ONE_INDENT \o <<"if", ":">>,
      ONE_INDENT \o ONE_INDENT \o <<"x">>,
      <<" ", "x">>,
      <<")">>,
      <<"(">> }

\* the command lines: a trigger with its argument, or a doc lookup
CmdLines ==
    { <<EDIT_CMD, " ", "foo">>, <<EDIT_CMD, " ", "-h">>,
      <<LIST_CMD>>, <<LIST_CMD, " ", "foo">>, <<LIST_CMD, " ", "--help">>,
      <<LIST_CMD, " ", "foo", "(", "_">>,
      <<SH_EXEC>>, <<SH_EXEC, "ls">>, <<SH_EXEC, "cd", " ", "foo">>,
      <<SH_EXEC, " ", "-h">>,
      <<HELP_CMD>>, <<HELP_CMD, " ", "-h">>, <<HELP_CMD, " ", "pass">>,
      <<HELP_CMD, " ", "foo">>, <<HELP_CMD, " ", EDIT_CMD>>,
      <<TOGGLE_AUTO_INDENT_CMD, " ", "-h">>,
      <<DOC_CMD>>, <<"foo", DOC_CMD>>, <<"pass", DOC_CMD>>,
      <<"_", ".", "(", DOC_CMD>>,
      <<"foo", ".", "_", "(", DOC_CMD, DOC_CMD>> }

\* the texts complete is called for and the lines they end
CompleterLines ==
    { [text |-> <<>>, ln |-> <<>>],
      [text |-> <<"foo">>, ln |-> <<" ", " ">>],
      [text |-> <<"\t">>, ln |-> <<"\t">>],
      [text |-> <<"Unsupported">>, ln |-> <<"raise", " ", "Unsupported">>],
      [text |-> <<"(">>, ln |-> <<"except", " ", "(">>],
      [text |-> <<"b">>, ln |-> <<"import", " ", "a", " ", "as", " ", "b">>],
      [text |-> <<"pa">>,
       ln |-> <<"from", " ", "nosuch", " ", "import", " ", "pa">>],
      [text |-> <<"pa">>, ln |-> <<"from", " ", "os", " ", "import", " ", "pa">>],
      [text |-> <<"imp">>, ln |-> <<"from", " ", "os", " ", "imp">>],
      [text |-> <<"mod">>,
       ln |-> <<"from", " ", "pkg", ".", "sub", " ", "import", " ", "mod">>],
      [text |-> <<"pkg", ".">>, ln |-> <<"import", " ", "pkg", ".">>],
      [text |-> <<"nosuch">>, ln |-> <<"import", " ", "nosuch">>],
      [text |-> <<"/">>, ln |-> <<"/">>],
      [text |-> <<"/", "tmp", "/", "a", ".">>,
       ln |-> <<"x", " ", "/", "tmp", "/", "a", ".">>],
      [text |-> <<"foo", ".">>, ln |-> <<"foo", ".">>],
      [text |-> <<"foo", ".">>, ln |-> <<"raise", " ", "foo", ".">>],
      [text |-> <<"/">>, ln |-> <<"except", " ", "/">>],
      [text |-> <<"/">>, ln |-> <<"import", " ", "/">>],
      [text |-> <<"nosuch", ".", "real">>, ln |-> <<"nosuch", ".", "real">>],
      [text |-> <<"raise">>, ln |-> <<"raise">>],
      [text |-> <<"foo">>, ln |-> <<"x", " ", "foo">>] }

\* the calls of complete: readline passes no line and the line is its line
\* buffer, a caller that passes the line leaves the line buffer empty
CompleterInputs ==
    { [text |-> i.text, ln |-> i.ln, buf |-> <<>>] : i \in CompleterLines }
    \cup { [text |-> i.text, ln |-> <<>>, buf |-> i.ln] : i \in CompleterLines }

\* completed before complete is called
NotCompleted ==
    [called |-> FALSE, text |-> <<>>, state |-> 0, ln |-> <<>>,
     value |-> None, raised |-> ""]

\* the lines typed in a session that is followed from its start to the
\* exit of the process
SessionLines ==
    { <<>>, <<"x">>, <<"if", ":">>, <<EDIT_CMD>> }

\* the namespaces a session that names objects starts with
Namespaces == SUBSET {"os", "sep", "n", "real"}

\* the names looked up: of a module, of its attributes, of an integer and
\* its attribute, and of a file
ObjectNames ==
    { <<"os">>, <<"os", ".", "pa", "th">>, <<"os", ".", "sep">>,
      <<"n">>, <<"n", ".", "real">>, <<"real">>,
      <<"/", "tmp", "/", "a">> }

\* the edit command with an argument
EditArgLines == { <<EDIT_CMD, " ">> \o nm : nm \in ObjectNames }

\* the shell command with an argument: cd with and without a directory,
\* a program that is found and one that is not
ShLines ==
    { <<SH_EXEC, "cd">>, <<SH_EXEC, "cd", " ", "/", "tmp">>,
      <<SH_EXEC, "cd", " ", "nosuch">>,
      <<SH_EXEC, "ls", " ", "/", "tmp">>, <<SH_EXEC, "nosuch">> }

\* lines that meet the condition of more than one rule of _cmd_handler: a
\* trigger in front of a doc suffix, a doc suffix behind an indent, and the
\* statements that open and continue a block
PrecedenceLines ==
    { <<LIST_CMD, " ", "os", DOC_CMD>>,
      <<EDIT_CMD, " ", "foo", DOC_CMD, DOC_CMD>>,
      <<SH_EXEC, "ls", " ", "/", "tmp", DOC_CMD>>,
      <<HELP_CMD, " ", "foo", DOC_CMD, DOC_CMD>>,
      <<"foo", DOC_CMD>>, <<"os", ".", "sep", DOC_CMD, DOC_CMD>>,
      <<"if", ":">>, ONE_INDENT \o <<"foo", DOC_CMD>>,
      ONE_INDENT \o <<"x">> }

\* found before lookup is called
NoLookup == [name |-> <<>>, obj |-> <<"None">>]

\* the lines of the file config.VENV_RC names, when there is one
VenvRcs ==
    { << <<"x", "\n">> >>,
      << <<"err", "\n">>, <<"z", "\n">> >>,
      << <<"if", ":", "\n">>, ONE_INDENT \o <<"x", "\n">> >>,
      << <<"(", "\n">> >> }

\* the lines pushed by a caller of push
PushLines ==
    { <<>>,
      <<"x">>,
      <<"err">>,
      <<"if", ":">>,
      <<"if", ":", " ">>,
      ONE_INDENT \o <<"x">>,
      ONE_INDENT \o <<"if", ":">>,
      ONE_INDENT \o ONE_INDENT \o <<"x">>,
      <<"(">>, <<")">>, <<"[">>, <<"{">>, <<"(", "[", "{">> }

\* the lines the user leaves in an edited file
UserLines ==
    { <<>>,
      <<"x">>,
      <<"z">>,
      <<"err">>,
      <<"if", ":">>,
      ONE_INDENT \o <<"x">>,
      ONE_INDENT \o <<"err">>,
      <<"#", " ", "x">> }

\* the lines of the history file of an earlier session
HistFiles ==
    { << <<"x", "\n">> >>,
      << <<"err", "\n">>, <<"\n">>, <<"z", "\n">> >> }

\* the text of a file with the lines ls; nl: does the last line end in "\n"
RECURSIVE TextOf(_, _)
TextOf(ls, nl) ==
    IF ls = <<>> THEN <<>>
    ELSE IF Len(ls) = 1 THEN ls[1] \o (IF nl THEN <<"\n">> ELSE <<>>)
    ELSE ls[1] \o <<"\n">> \o TextOf(Tail(ls), nl)

\* the texts an editor session can leave, of at most k lines
EditedTexts(k) ==
    { TextOf(ls, nl) : ls \in UNION { [1..n -> UserLines] : n \in 0..k },
                       nl \in BOOLEAN }

NoReplay ==
    [active |-> FALSE, open_fd |-> <<>>, previous |-> <<>>,
     print_comments |-> FALSE, quiet |-> FALSE, skip_history |-> FALSE]

\* edit when process_edit_cmd has not run in the current handler, and its
\* fields: the history that was serialized and whether it is HISTFILE, the
\* text written to the temporary file and the text the editor left in it,
\* the exit status of the editor, the number of calls of the editor, of
\* _exec_from_file and of os.unlink, and whether the temporary file exists
NoEdit ==
    [ran |-> FALSE, from_histfile |-> FALSE, history |-> <<>>,
     artifact |-> <<>>, text |-> <<>>, rc |-> 0, editor_calls |-> 0,
     replays |-> 0, unlinks |-> 0, tmp_exists |-> FALSE]

(***************************************************************************)
(* The history of readline and the file of config.HISTFILE                 *)
(* (pythonrc.py:349-365).  An entry is a string.                           *)
(***************************************************************************)
\* the processes that run the console at the same time
Sessions == {"a", "b"}

\* the number of entries one process adds to the history of its readline
MaxEntries == 2

\* the file is not there
NoFile == [exists |-> FALSE, entries |-> <<>>]

\* what config.HISTFILE names when the first process starts: nothing, an
\* empty file, a file with an entry
HistoryFiles ==
    { NoFile,
      [exists |-> TRUE, entries |-> <<>>],
      [exists |-> TRUE, entries |-> <<"h1">>] }

\* a process that has not called init_readline
NotStarted ==
    [pc |-> "off", history |-> <<>>, len_at_start |-> 0, raised |-> FALSE]

\* readline.read_history_file(config.HISTFILE) inside try/except IOError
\* (pythonrc.py:358-361): the history of readline afterwards
ReadHistoryFile(f) == IF f.exists THEN f.entries ELSE <<>>

\* an append that writes the whole history of readline
AppendHistoryFile_All(f, history, nelements) ==
    IF f.exists
    THEN [file |-> [f EXCEPT !.entries = @ \o history], raised |-> FALSE]
    ELSE [file |-> f, raised |-> TRUE]

\* readline.append_history_file(nelements, config.HISTFILE): the last
\* nelements entries of the history are written behind the content of the
\* file, which must exist; FileNotFoundError otherwise
AppendHistoryFile(f, history, nelements) ==
    IF f.exists
    THEN [file |-> [f EXCEPT !.entries =
                       @ \o SubSeq(history, Len(history) - nelements + 1,
                                   Len(history))],
          raised |-> FALSE]
    ELSE [file |-> f, raised |-> TRUE]

(***************************************************************************)
(* Init: the console after ImprovedConsole.__init__ (pythonrc.py:273-295)  *)
(***************************************************************************)
Init ==
    /\ driver \in {"interact", "router", "session", "objects", "tests",
                   "completer", "precedence", "history"}
    /\ session_history = <<>>
    /\ buffer = <<>>
    /\ _indent = <<>>
    /\ locals \in (IF driver = "completer" THEN {{}, {"foo"}}
                    ELSE IF driver = "objects" THEN Namespaces ELSE {{}})
    /\ _skip_subsequent = FALSE
    /\ AUTO_INDENT = TRUE
    /\ pre_input_hook = TRUE
    /\ POST_EDIT_PRINT_COMMENTS \in BOOLEAN
    /\ stderr = <<>>
    /\ executed = <<>>
    /\ pc = IF driver = "session" THEN "start" ELSE "prompt"
    /\ line = <<>>
    /\ more = FALSE
    /\ replay = NoReplay
    /\ edit = NoEdit
    /\ used = 0
    /\ calls = <<>>
    /\ reads = <<>>
    /\ cmds = 0
    /\ found = NoLookup
    /\ retries = 2
    /\ starts = IF driver = "session" THEN 0 ELSE 1
    /\ matches = [none |-> FALSE, items |-> <<>>]
    /\ completed = NotCompleted
    /\ histfile \in (IF driver = "history" THEN HistoryFiles ELSE {NoFile})
    /\ sessions = [s \in Sessions |-> NotStarted]

\* the console at the start of a handler: the logs of the handler are empty
Fresh == [Console EXCEPT !.stderr = <<>>, !.executed = <<>>, !.calls = <<>>]

\* the lines that can be typed at the prompt: a session types the lines of
\* InputLines or those of RouteLines, and the latter types commands at the
\* primary prompt
Typed ==
    IF driver = "interact" THEN InputLines
    ELSE IF driver = "session" THEN SessionLines
    ELSE IF driver = "objects" THEN EditArgLines \cup ShLines
    ELSE IF driver = "precedence" THEN PrecedenceLines
    ELSE RouteLines \cup {<<TOGGLE_AUTO_INDENT_CMD>>}
         \cup (IF ~more THEN CmdLines ELSE {})

\* the number of command lines among the lines read
CmdCount(r) == Cardinality({i \in 1..Len(r) : r[i] \in CmdLines})

\* the sequences of lines one raw_input can read within the bounds
Reads ==
    { r \in { [i \in 1..k |-> <<>>] \o <<l>> : k \in 0..2, l \in Typed } :
        /\ IsRead(r, AUTO_INDENT)
        /\ used + Len(r) <= MaxLines
        /\ cmds + CmdCount(r) <= MaxCmds }

(***************************************************************************)
(* The actions.                                                            *)
(***************************************************************************)
\* raw_input for a line that is not the edit command: the line is read and
\* routed by _cmd_handler (pythonrc.py:438-484)
RawInput ==
    /\ driver \in {"interact", "router", "session", "objects",
                   "precedence"}
    /\ pc = "prompt"
    /\ \E r \in Reads :
          /\ ~IsEditNoArg(Last(r))
          /\ \E h \in {CmdHandler(Fresh, Last(r), AUTO_INDENT)} :
                 /\ SetConsole(h.c)
                 /\ line' = h.line
                 /\ AUTO_INDENT' = h.auto
                 /\ pre_input_hook' = IF h.auto = AUTO_INDENT
                                      THEN pre_input_hook ELSE h.auto
          /\ used' = used + Len(r)
          /\ reads' = r
          /\ cmds' = cmds + CmdCount(r)
    /\ pc' = "push"
    /\ edit' = NoEdit
    /\ UNCHANGED <<POST_EDIT_PRINT_COMMENTS, histfile, sessions, more, replay, driver,
                   matches, completed, retries, starts, found>>

\* the interactive loop pushes the line raw_input returned
DoPush ==
    /\ pc = "push"
    /\ \E r \in {Push(Console, line)} :
          SetConsole(r.c) /\ more' = r.more
    /\ pc' = "prompt"
    /\ reads' = <<>>
    /\ UNCHANGED <<AUTO_INDENT, pre_input_hook, POST_EDIT_PRINT_COMMENTS, histfile, sessions,
                   line, replay, edit, used, driver, cmds,
                   matches, completed, retries, starts, found>>

\* push called on the console with a line, as the unit tests do
PushDirect ==
    /\ driver = "tests"
    /\ pc = "prompt"
    /\ used < MaxLines
    /\ \E l \in PushLines :
          \E r \in {Push(Fresh, l)} :
             SetConsole(r.c) /\ more' = r.more
    /\ used' = used + 1
    /\ edit' = NoEdit
    /\ UNCHANGED <<AUTO_INDENT, pre_input_hook, POST_EDIT_PRINT_COMMENTS, histfile, sessions,
                   pc, line, replay, driver, reads, cmds,
                   matches, completed, retries, starts, found>>

\* the edit command without an argument, up to the exit of the editor
\* (pythonrc.py:604-624): hist is what HISTFILE holds
EditRecord(hist) ==
    LET from_histfile == session_history = <<>>
        history == IF from_histfile THEN hist ELSE session_history
        Record(artifact) ==
            [ran |-> TRUE, from_histfile |-> from_histfile,
             history |-> history, artifact |-> artifact, text |-> artifact,
             rc |-> 0, editor_calls |-> 1, replays |-> 0, unlinks |-> 0,
             tmp_exists |-> TRUE]
    IN  Record(Artifact(history))

\* an edit command that leaves the temporary file
UnlinkTmp_Skip(e) == e

\* os.unlink(filename) at the end of the edit command (pythonrc.py:638)
UnlinkTmp(e) == [e EXCEPT !.unlinks = @ + 1, !.tmp_exists = FALSE]

\* a print_comments argument that is always the configured value
PrintComments_Config(from_histfile, cfg) == cfg

\* the print_comments argument of the replay (pythonrc.py:632-633): a file
\* object is never equal to the list session_history
PrintComments(from_histfile, cfg) == IF from_histfile THEN FALSE ELSE cfg

\* the editor exits with an error: nothing is replayed (pythonrc.py:636-638)
EditFail ==
    /\ driver = "interact"
    /\ pc = "prompt"
    /\ \E r \in Reads, hist \in HistFiles :
          /\ IsEditNoArg(Last(r))
          /\ edit' = UnlinkTmp([EditRecord(hist) EXCEPT !.rc = 1])
          /\ used' = used + Len(r)
          /\ reads' = r
          /\ SetConsole(Write(Call(Fresh, Handler(EDIT_CMD), CmdArgs(Last(r))),
                              "editor exited with an error code"))
    /\ line' = <<>>
    /\ pc' = "push"
    /\ UNCHANGED <<AUTO_INDENT, pre_input_hook, POST_EDIT_PRINT_COMMENTS, histfile, sessions,
                   more, replay, driver, cmds,
                   matches, completed, retries, starts, found>>

\* the editor exits with 0, leaving the text in the file: the replay starts
\* (pythonrc.py:629-635 and 536-537)
EditStart ==
    /\ driver = "interact"
    /\ pc = "prompt"
    /\ \E r \in Reads, hist \in HistFiles :
          /\ IsEditNoArg(Last(r))
          /\ \E e \in {EditRecord(hist)}, k \in {MaxLines - used - Len(r)} :
                 \E text \in {e.artifact} \cup EditedTexts(k) :
                    /\ Len(FileLines(text)) <= k
                    /\ edit' = [e EXCEPT !.replays = 1, !.text = text]
                    /\ replay' = [active |-> TRUE,
                                  open_fd |-> FileLines(text),
                                  previous |-> <<>>,
                                  print_comments |->
                                      PrintComments(e.from_histfile,
                                                    POST_EDIT_PRINT_COMMENTS),
                                  quiet |-> FALSE,
                                  skip_history |-> FALSE]
          /\ used' = used + Len(r)
          /\ reads' = r
          /\ SetConsole([Call(Fresh, Handler(EDIT_CMD), CmdArgs(Last(r)))
                            EXCEPT !.skip = FALSE])
    /\ pc' = "replay"
    /\ UNCHANGED <<AUTO_INDENT, pre_input_hook, POST_EDIT_PRINT_COMMENTS, histfile, sessions,
                   line, more, driver, cmds,
                   matches, completed, retries, starts, found>>

\* one pass of the loop of _exec_from_file (pythonrc.py:538-571)
ReplayLine ==
    /\ pc \in {"replay", "bootstrap"}
    /\ replay.open_fd # <<>>
    /\ \E r \in {ExecFromFileLine(Console, replay, Head(replay.open_fd))} :
          /\ SetConsole(r.c)
          /\ replay' = [r.rp EXCEPT !.open_fd = Tail(@)]
    /\ used' = used + 1
    /\ UNCHANGED <<AUTO_INDENT, pre_input_hook, POST_EDIT_PRINT_COMMENTS, histfile, sessions,
                   pc, line, more, edit, driver, reads, cmds,
                   matches, completed, retries, starts, found>>

\* the end of the file: _exec_from_file pushes '' (pythonrc.py:572), the
\* edit command deletes the file (pythonrc.py:638) and raw_input returns ''
ReplayEnd ==
    /\ pc = "replay"
    /\ replay.open_fd = <<>>
    /\ SetConsole(Push(Console, <<>>).c)
    /\ edit' = UnlinkTmp(edit)
    /\ replay' = NoReplay
    /\ line' = <<>>
    /\ pc' = "push"
    /\ UNCHANGED <<AUTO_INDENT, pre_input_hook, POST_EDIT_PRINT_COMMENTS, histfile, sessions,
                   more, used, driver, reads, cmds,
                   matches, completed, retries, starts, found>>

\* readline, or a caller that passes the line, calls complete for a text
\* with a state; the namespace of the completer is the one of the console
\* (pythonrc.py:373-374)
DoComplete ==
    /\ driver = "completer"
    /\ \E i \in CompleterInputs, state \in 0..MaxState :
          \E r \in {Complete(matches, i.text, state, i.ln, i.buf, locals)} :
             /\ matches' = r.matches
             /\ completed' = [called |-> TRUE, text |-> i.text,
                              state |-> state,
                              ln |-> IF i.ln = <<>> THEN i.buf ELSE i.ln,
                              value |-> r.value, raised |-> r.raised]
    /\ UNCHANGED <<session_history, buffer, _indent, locals,
                   _skip_subsequent, AUTO_INDENT, pre_input_hook,
                   POST_EDIT_PRINT_COMMENTS, histfile, sessions, stderr, executed, pc, line, more,
                   replay, edit, used, driver, calls, reads, cmds, retries, starts, found>>

\* init_readline in a process that starts (pythonrc.py:353-363): the
\* history of readline is empty, the file is read when it is there, and
\* append_history is registered with the length the history then has
InitReadline ==
    /\ driver = "history"
    /\ \E s \in Sessions :
          /\ sessions[s].pc = "off"
          /\ sessions' = [sessions EXCEPT ![s] =
                 [pc |-> "running",
                  history |-> ReadHistoryFile(histfile),
                  len_at_start |-> Len(ReadHistoryFile(histfile)),
                  raised |-> FALSE]]
    /\ UNCHANGED <<session_history, buffer, _indent, locals,
                   _skip_subsequent, AUTO_INDENT, pre_input_hook,
                   POST_EDIT_PRINT_COMMENTS, stderr, executed, pc, line, more,
                   replay, edit, used, driver, calls, reads, cmds, found,
                   retries, starts, matches, completed, histfile>>

\* readline adds the line that was typed, or _exec_from_file the line that
\* is replayed (pythonrc.py:570), to the history of the process; the k-th
\* entry the process s adds is the string s followed by k
TypeEntry ==
    /\ driver = "history"
    /\ \E s \in Sessions :
          /\ sessions[s].pc = "running"
          /\ Len(sessions[s].history) - sessions[s].len_at_start < MaxEntries
          /\ sessions' = [sessions EXCEPT ![s].history =
                 Append(@, s \o ToString(Len(@) - sessions[s].len_at_start + 1))]
    /\ UNCHANGED <<session_history, buffer, _indent, locals,
                   _skip_subsequent, AUTO_INDENT, pre_input_hook,
                   POST_EDIT_PRINT_COMMENTS, stderr, executed, pc, line, more,
                   replay, edit, used, driver, calls, reads, cmds, found,
                   retries, starts, matches, completed, histfile>>

\* the process exits and atexit calls append_history(len_at_start)
\* (pythonrc.py:349-351)
AppendHistory ==
    /\ driver = "history"
    /\ \E s \in Sessions :
          /\ sessions[s].pc = "running"
          /\ \E r \in {AppendHistoryFile(histfile, sessions[s].history,
                            Len(sessions[s].history) - sessions[s].len_at_start)} :
                /\ histfile' = r.file
                /\ sessions' = [sessions EXCEPT ![s].pc = "exited",
                                                ![s].raised = r.raised]
    /\ UNCHANGED <<session_history, buffer, _indent, locals,
                   _skip_subsequent, AUTO_INDENT, pre_input_hook,
                   POST_EDIT_PRINT_COMMENTS, stderr, executed, pc, line, more,
                   replay, edit, used, driver, calls, reads, cmds, found,
                   retries, starts, matches, completed>>

\* self.session_history = [] after the replay of the file
ClearHistory(c) == [c EXCEPT !.session_history = <<>>]

\* the start of ImprovedConsole.interact (pythonrc.py:718-735): without the
\* file of config.VENV_RC the loop starts at once, with it the quiet replay
\* starts
Bootstrap ==
    /\ driver = "session"
    /\ pc = "start"
    /\ \/ /\ pc' = "prompt"
          /\ starts' = starts + 1
          /\ UNCHANGED <<replay, _skip_subsequent>>
       \/ /\ \E rc \in VenvRcs :
                replay' = [active |-> TRUE, open_fd |-> rc, previous |-> <<>>,
                           print_comments |-> POST_EDIT_PRINT_COMMENTS,
                           quiet |-> TRUE, skip_history |-> TRUE]
          /\ _skip_subsequent' = FALSE
          /\ pc' = "bootstrap"
          /\ UNCHANGED starts
    /\ UNCHANGED <<session_history, buffer, _indent, locals, AUTO_INDENT,
                   pre_input_hook, POST_EDIT_PRINT_COMMENTS, histfile, sessions, stderr, executed,
                   line, more, edit, used, driver, calls, reads, cmds,
                   retries, matches, completed, found>>

\* the end of the file of config.VENV_RC: _exec_from_file pushes ''
\* (pythonrc.py:572), interact empties session_history (pythonrc.py:723)
\* and starts the loop (pythonrc.py:735)
BootstrapEnd ==
    /\ pc = "bootstrap"
    /\ replay.open_fd = <<>>
    /\ SetConsole(ClearHistory(Push(Console, <<>>).c))
    /\ replay' = NoReplay
    /\ pc' = "prompt"
    /\ starts' = starts + 1
    /\ UNCHANGED <<AUTO_INDENT, pre_input_hook, POST_EDIT_PRINT_COMMENTS, histfile, sessions,
                   line, more, edit, used, driver, reads, cmds, retries,
                   matches, completed, found>>

\* a loop that is never left for want of retries
Exhausted_Never(left) == FALSE

\* is the loop of ImprovedConsole.interact left when 'retries' is left
Exhausted(left) == left = 0

\* an exception leaves InteractiveConsole.interact (pythonrc.py:739-749):
\* the edit command without an argument finds session_history empty and no
\* file at config.HISTFILE, and open raises (pythonrc.py:617), or input
\* raises for a line that cannot be decoded (pythonrc.py:441); 'retries' is
\* decremented, and the loop is started again or the process exits
\* (pythonrc.py:733, 755)
Crash ==
    /\ driver = "session"
    /\ pc = "prompt"
    /\ \/ /\ session_history = <<>>
          /\ \E r \in Reads :
                /\ IsEditNoArg(Last(r))
                /\ used' = used + Len(r)
                /\ reads' = r
                /\ SetConsole(Write(Call(Fresh, Handler(EDIT_CMD),
                                         CmdArgs(Last(r))),
                                    "FileNotFoundError"))
       \/ /\ used < MaxLines
          /\ used' = used + 1
          /\ reads' = <<>>
          /\ SetConsole(Write(Fresh, "UnicodeDecodeError"))
    /\ edit' = NoEdit
    /\ retries' = retries - 1
    /\ IF Exhausted(retries - 1)
       THEN pc' = "terminated" /\ UNCHANGED starts
       ELSE pc' = "prompt" /\ starts' = starts + 1
    /\ more' = FALSE
    /\ UNCHANGED <<AUTO_INDENT, pre_input_hook, POST_EDIT_PRINT_COMMENTS, histfile, sessions,
                   line, replay, driver, cmds, matches, completed, found>>

\* raw_input raises EOFError: InteractiveConsole.interact returns and the
\* process exits (pythonrc.py:750-755)
EndOfInput ==
    /\ driver = "session"
    /\ pc = "prompt"
    /\ pc' = "terminated"
    /\ SetConsole(Write(Fresh, "now exiting ImprovedConsole..."))
    /\ reads' = <<>>
    /\ edit' = NoEdit
    /\ UNCHANGED <<AUTO_INDENT, pre_input_hook, POST_EDIT_PRINT_COMMENTS, histfile, sessions,
                   line, more, replay, used, driver, cmds, retries, starts,
                   matches, completed, found>>

\* quit() is read at the primary prompt: the statement raises SystemExit,
\* which leaves push before resetbuffer, and the process exits
\* (pythonrc.py:736-738, 755)
Quit ==
    /\ driver = "session"
    /\ pc = "prompt"
    /\ ~more /\ buffer = <<>>
    /\ used < MaxLines
    /\ pc' = "terminated"
    /\ SetConsole([Fresh EXCEPT !.buffer = << <<"quit()">> >>,
                                !.executed = << <<"quit()">> >>])
    /\ used' = used + 1
    /\ reads' = << <<"quit()">> >>
    /\ line' = <<"quit()">>
    /\ edit' = NoEdit
    /\ UNCHANGED <<AUTO_INDENT, pre_input_hook, POST_EDIT_PRINT_COMMENTS, histfile, sessions,
                   more, replay, driver, cmds, retries, starts,
                   matches, completed, found>>

\* lookup called with a name, as the unit tests do (pythonrc.py:574-581)
DoLookup ==
    /\ driver = "objects"
    /\ pc = "prompt"
    /\ used < MaxLines
    /\ \E nm \in ObjectNames :
          found' = [name |-> nm, obj |-> lookup(nm, <<"None">>, locals)]
    /\ used' = used + 1
    /\ UNCHANGED <<session_history, buffer, _indent, locals,
                   _skip_subsequent, AUTO_INDENT, pre_input_hook,
                   POST_EDIT_PRINT_COMMENTS, histfile, sessions, stderr, executed, pc, line,
                   more, replay, edit, driver, calls, reads, cmds, retries,
                   starts, matches, completed>>

Next ==
    \/ DoLookup
    \/ Bootstrap
    \/ BootstrapEnd
    \/ Crash
    \/ EndOfInput
    \/ Quit
    \/ DoComplete
    \/ RawInput
    \/ DoPush
    \/ PushDirect
    \/ EditFail
    \/ EditStart
    \/ ReplayLine
    \/ ReplayEnd
    \/ InitReadline
    \/ TypeEntry
    \/ AppendHistory

Spec == Init /\ [][Next]_vars

(***************************************************************************)
(* The claims.                                                             *)
(***************************************************************************)
If == <<"if", ":">>

\* has the current handler reported an exception of an executed statement
Raised == "Traceback" \in Range(stderr)

\* is the step a call of push that leaves the statement incomplete: the
\* buffer grows by the line pushed (a pass of the replay loop appends to
\* the buffer without a push)
IncompletePush ==
    /\ Len(buffer') = Len(buffer) + 1
    /\ buffer' = Append(buffer, Last(buffer'))
    /\ ~(pc = "replay" /\ replay.open_fd # <<>>)

\* C1: during a replay, once a replayed statement has raised, no step of
\* the replay executes a statement, changes the namespace or leaves a line
\* in the pending buffer.
C1_NoExecutionAfterError ==
    [][(pc = "replay" /\ Raised) =>
          (executed' = executed /\ locals' = locals /\ buffer' = <<>>)]_vars

\* a replay has ended in which "z = 1" came after the failing statement: the
\* line is in the history and z is not bound
C1_Witness ==
    /\ pc = "push" /\ edit.ran /\ Raised
    /\ "z" \notin locals
    /\ \E i \in 1..Len(session_history) : session_history[i] = <<"z", "\n">>

\* the history before the line of the current pass is captured: at the pass
\* that reports the error the failing statement is written first
C2_Prior ==
    IF Raised THEN session_history
    ELSE session_history \o CollapseFrom(buffer, <<>>)

\* the lines the replay loop drops: comments, and blank lines after a blank
\* line (comments between them do not count)
C2_Dropped(stmt) ==
    \/ StartsWith(Strip(stmt), <<"#">>)
    \/ Strip(stmt) = <<>> /\ replay.previous = <<>>

\* C2 as stated: every line of the artifact read once the error has been
\* reported is appended to SessionHistory verbatim.
C2_Original ==
    [][(pc = "replay" /\ replay.open_fd # <<>> /\ "Traceback" \in Range(stderr')) =>
          session_history' = Append(C2_Prior, Head(replay.open_fd))]_vars

\* C2 (amended): every line of the artifact read once the error has been
\* reported is appended to SessionHistory verbatim and in order, except the
\* comment lines and the blank lines that follow a blank line, which are
\* dropped.
C2_CapturedAfterError ==
    [][(pc = "replay" /\ replay.open_fd # <<>> /\ "Traceback" \in Range(stderr')) =>
          session_history' = IF C2_Dropped(Head(replay.open_fd))
                             THEN session_history
                             ELSE Append(C2_Prior, Head(replay.open_fd))]_vars

\* two lines after the failing statement are in the history, in the order
\* of the artifact and with their newlines
C2_Witness ==
    /\ pc = "replay" /\ _skip_subsequent
    /\ \E i \in 1..(Len(session_history) - 1) :
          /\ session_history[i] = <<"z", "\n">>
          /\ session_history[i + 1] = <<"x", "\n">>

\* C3: during a replay, once a replayed statement has been rejected with a
\* syntax or indentation error, no step of the replay executes a statement,
\* changes the namespace or leaves a line in the pending buffer.
C3_SyntaxErrorHaltsReplay ==
    [][(pc = "replay" /\ "SyntaxError" \in Range(stderr)) =>
          (executed' = executed /\ locals' = locals /\ buffer' = <<>>)]_vars

\* C4: the replay of the unchanged artifact of a non-empty SessionHistory,
\* started with an empty pending buffer, executes nothing and changes
\* neither SessionHistory nor the namespace.
C4_RoundTrip ==
    [][(/\ pc = "replay"
        /\ ~edit.from_histfile
        /\ edit.text = edit.artifact
        /\ buffer = <<>>) =>
          (/\ session_history' = session_history
           /\ locals' = locals
           /\ executed' = executed
           /\ buffer' = <<>>)]_vars

\* the edit of a non-empty history, at the primary prompt, has ended with
\* the artifact unchanged
C4_Witness ==
    /\ pc = "push" /\ ~more
    /\ edit.ran /\ edit.rc = 0 /\ ~edit.from_histfile
    /\ edit.text = edit.artifact
    /\ edit.unlinks = 1
    /\ session_history = edit.history
    /\ locals # {}
    /\ executed = <<>>

\* C5: when the editor exits with an error the edit command replays
\* nothing, changes neither the namespace, the pending buffer nor
\* SessionHistory, writes a warning and deletes the temporary file; when it
\* exits with 0 the file exists during the replay and is deleted once,
\* after it.
C5_EditorFailure ==
    /\ []((edit.ran /\ edit.rc # 0) =>
             /\ "editor exited with an error code" \in Range(stderr)
             /\ edit.replays = 0
             /\ edit.unlinks = 1
             /\ ~edit.tmp_exists)
    /\ []((edit.ran /\ edit.rc = 0) =>
             IF pc = "replay"
             THEN edit.unlinks = 0 /\ edit.tmp_exists
             ELSE edit.unlinks = 1 /\ ~edit.tmp_exists)
    /\ [][(pc = "prompt" /\ edit'.ran /\ edit'.rc # 0) =>
             (/\ locals' = locals
              /\ buffer' = buffer
              /\ session_history' = session_history
              /\ executed' = <<>>)]_vars

\* the editor has exited with an error in the middle of a statement
C5_Witness ==
    /\ pc = "push"
    /\ edit.ran /\ edit.rc # 0
    /\ buffer # <<>>
    /\ locals # {}

\* the indexes of the lines of a text that carry the comment marker
C6_Commented(text) ==
    {i \in 1..Len(FileLines(text)) : StartsWith(FileLines(text)[i], <<"#", " ">>)}

C7_ReplayOnce ==
    /\ pc = "replay" =>
          /\ edit.ran /\ edit.rc = 0 /\ edit.replays = 1
          /\ replay.print_comments =
                (IF edit.from_histfile THEN FALSE ELSE POST_EDIT_PRINT_COMMENTS)
    /\ (edit.ran /\ pc # "replay") =>
          edit.replays = (IF edit.rc = 0 THEN 1 ELSE 0)
    /\ (edit.ran /\ "comment" \in Range(stderr)) =>
          ~edit.from_histfile /\ POST_EDIT_PRINT_COMMENTS

\* a comment of the artifact of the current session has been echoed
C7_Witness ==
    /\ pc = "replay"
    /\ ~edit.from_histfile
    /\ "comment" \in Range(stderr)

\* C8: at the primary prompt, and whenever the buffer is empty outside of
\* the routing of a line, the tracked indent is empty; and pushing a block
\* header, a nested header and a statement gives indents of 1, 2 and 2
\* units.
C8_IndentReset ==
    /\ (pc = "prompt" /\ ~more) => _indent = <<>>
    /\ (pc # "push" /\ buffer = <<>>) => _indent = <<>>
    /\ driver = "tests" =>
          /\ buffer = <<If>> => _indent = ONE_INDENT
          /\ buffer = <<If, ONE_INDENT \o If>> =>
                _indent = ONE_INDENT \o ONE_INDENT
          /\ buffer = <<If, ONE_INDENT \o If, ONE_INDENT \o ONE_INDENT \o <<"x">> >> =>
                _indent = ONE_INDENT \o ONE_INDENT

\* the four lines of the example have been pushed
C8_Witness ==
    /\ driver = "tests" /\ pc = "prompt" /\ ~more
    /\ session_history = <<If, ONE_INDENT \o If,
                           ONE_INDENT \o ONE_INDENT \o <<"x">>, <<>> >>
    /\ _indent = <<>>

\* C9: a push that leaves the statement incomplete, with a line whose last
\* non-whitespace token is an opening token, adds one indent unit to the
\* tracked indent.
C9_OpenerIndents ==
    [][(IncompletePush /\ EndsWithOpener(RStrip(Last(buffer')))) =>
          _indent' = _indent \o ONE_INDENT]_vars

\* C10: a push that leaves the statement incomplete, with a line that does
\* not end in an opening token, leaves the tracked indent as it is.
C10_NoOpenerKeepsIndent ==
    [][(IncompletePush /\ ~EndsWithOpener(Last(buffer'))) =>
          _indent' = _indent]_vars

\* an empty line has been pushed into an open block
C10_Witness ==
    /\ driver = "tests"
    /\ buffer = <<If, <<>> >>
    /\ _indent = ONE_INDENT
    /\ more

\* k units of indentation
RECURSIVE Units(_)
Units(k) == IF k = 0 THEN <<>> ELSE ONE_INDENT \o Units(k - 1)

\* is the step a call of raw_input that routed the line it read last
Routed == pc = "prompt" /\ pc' = "push" /\ reads' # <<>>

\* C11: with auto-indent enabled and a tracked indent of k >= 1 units,
\* routing a blank line sets the tracked indent to k-1 units and returns
\* the new tracked indent as the line to push; the blank line that is
\* routed at one unit is pushed as the empty line.
C11_BlankLineDedents ==
    [][\A k \in 1..MaxLines :
          (Routed /\ AUTO_INDENT /\ _indent = Units(k)
                  /\ Strip(Last(reads')) = <<>>)
              => (_indent' = Units(k - 1) /\ line' = Units(k - 1))]_vars

\* a blank line was routed at two units: one unit is left and is the line
\* to push, and the block is still open
C11_Witness ==
    /\ pc = "push" /\ reads = << <<>> >> /\ AUTO_INDENT
    /\ buffer = <<If, ONE_INDENT \o If>>
    /\ _indent = ONE_INDENT /\ line = ONE_INDENT

\* is the line one that neither a trigger nor the doc token consumes
Plain(l) == ~Matches(l) /\ ~EndsWith(l, <<DOC_CMD>>)

\* C12: with auto-indent enabled, after a non-blank continuation line that
\* is neither a command nor a doc lookup is routed, the tracked indent is
\* the leading whitespace of the line, whatever the tracked indent was.
C12_AdoptsLeadingSpace ==
    [][(Routed /\ AUTO_INDENT /\ more /\ Plain(Last(reads'))
               /\ Strip(Last(reads')) # <<>>)
          => _indent' = LeadingSpace(Last(reads'))]_vars

\* C13: with auto-indent disabled an empty line is delivered to the router
\* only as the third of three consecutive empty reads, and a non-empty line
\* read after one or two empty ones is delivered while those are discarded;
\* with auto-indent enabled the one line read is delivered.
C13_ThreeEmptyReads ==
    [][Routed =>
          /\ \A i \in 1..(Len(reads') - 1) : reads'[i] = <<>>
          /\ used' = used + Len(reads')
          /\ AUTO_INDENT => Len(reads') = 1
          /\ ~AUTO_INDENT =>
                /\ Len(reads') <= 3
                /\ Last(reads') = <<>> => Len(reads') = 3
                /\ Plain(Last(reads')) => line' = Last(reads')]_vars

\* with auto-indent disabled the third empty read in a row was delivered
C13_Witness ==
    /\ ~AUTO_INDENT /\ pc = "push"
    /\ reads = << <<>>, <<>>, <<>> >> /\ line = <<>>

\* the names of the handlers of self.commands
Handlers == {Handler(t) : t \in Triggers}

\* the calls of handlers among the calls cs, oldest first
HandlerCalls(cs) == SelectSeq(cs, LAMBDA e : e.op \in Handlers)

\* the remainder of a command line after the trigger and the whitespace
\* that separates it from the argument
Remainder(l) == LStrip(Tail(l))

\* C14: routing a line that starts with a trigger calls the handler of the
\* trigger first and with the remainder of the line, calls no second
\* handler (a handler that the help handler calls in turn is not counted)
\* and returns the empty line.
C14_HandlerGetsRemainder ==
    [][(Routed /\ Matches(Last(reads'))) =>
          /\ line' = <<>>
          /\ HandlerCalls(calls') # <<>>
          /\ HandlerCalls(calls')[1] = [op  |-> Handler(Last(reads')[1]),
                                        arg |-> Remainder(Last(reads'))]
          /\ Last(reads')[1] # HELP_CMD => Len(HandlerCalls(calls')) = 1]_vars

\* is the line a doc lookup: not a command, and it ends in one doc token
IsDocLookup(l) ==
    ~Matches(l) /\ EndsWith(l, <<"?">>) /\ ~EndsWith(l, <<"?", "?">>)

\* the line without the doc tokens, dots and opening parentheses it ends in
Undecorated(l) == RStripSet(l, {"?", ".", "("})

\* C15: a line that is not a command and ends in a single '?' is rewritten,
\* after the trailing '?', '.' and '(' are stripped, to dir() when nothing
\* is left, to a help call when a keyword is left, and otherwise to the
\* expression that prints the __doc__ of what is left; the rewritten line is
\* the line returned for execution.
C15_DocLookupRewritten ==
    [][(Routed /\ IsDocLookup(Last(reads'))) =>
          line' = IF Undecorated(Last(reads')) = <<>> THEN <<"dir()">>
                  ELSE IF Undecorated(Last(reads')) \in {<<k>> : k \in Keywords}
                  THEN <<"help(\"">> \o Undecorated(Last(reads')) \o <<"\")">>
                  ELSE <<"print(">> \o Undecorated(Last(reads'))
                                    \o <<".__doc__)">>]_vars

\* the doc lookup of a keyword was rewritten to a help call
C15_Witness ==
    /\ pc = "push" /\ reads = << <<"pass", "?">> >>
    /\ line = <<"help(\"", "pass", "\")">>

\* is the line a doc search: not a command, and it ends in two doc tokens
IsDocSearch(l) == ~Matches(l) /\ EndsWith(l, <<"?", "?">>)

\* C16: routing a line that is not a command and ends in '??' opens one
\* browser query, for the line without its trailing decoration and with
\* every '.' replaced by '+', and returns the empty line; neither the
\* routing nor the push of the returned line at the primary prompt executes
\* a statement, binds a name or adds to SessionHistory.
C16_DocSearchOpensBrowser ==
    [][/\ (Routed /\ IsDocSearch(Last(reads'))) =>
             /\ calls' = << [op  |-> "webbrowser.open",
                             arg |-> Replace(Undecorated(Last(reads')),
                                             ".", "+")] >>
             /\ line' = <<>>
             /\ executed' = <<>>
             /\ UNCHANGED <<session_history, locals, buffer>>
       /\ (pc = "push" /\ reads # <<>> /\ IsDocSearch(Last(reads)) /\ ~more) =>
             /\ executed' = <<>>
             /\ calls' = calls
             /\ UNCHANGED <<session_history, locals, buffer>>]_vars

\* the doc search of foo._( opened the query for foo+_
C16_Witness ==
    /\ pc = "push" /\ reads = << <<"foo", ".", "_", "(", "?", "?">> >>
    /\ calls = << [op |-> "webbrowser.open", arg |-> <<"foo", "+", "_">>] >>
    /\ line = <<>>

\* what a handler prints as its documentation
Docs == {Doc(t) : t \in Decorated} \cup {"process_help_cmd.__doc__"}

\* C17: routing a trigger with the argument '-h' or '--help' prints the
\* documentation of a handler and has no other effect: no call outside the
\* console, no toggle of auto-indent, nothing pushed or executed.
C17_UsageFlagOnlyPrints ==
    [][(Routed /\ Matches(Last(reads'))
               /\ IsUsageFlag(Strip(CmdArgs(Last(reads'))))) =>
          /\ Len(stderr') = 1 /\ stderr'[1] \in Docs
          /\ HandlerCalls(calls') = calls'
          /\ AUTO_INDENT' = AUTO_INDENT
          /\ executed' = <<>>
          /\ UNCHANGED <<session_history, buffer, locals>>]_vars

\* was complete called last for a line that is empty or whitespace
BlankCompleted == completed.called /\ (completed.ln = <<>> \/ IsSpace(completed.ln))

\* C18: the calls of complete with the states 0, 1, 2, ... yield the entries
\* of a finite list that ends in None, and no candidate other than None is
\* in the list twice.
C18_NoDuplicateCandidate ==
    (completed.called /\ ~BlankCompleted /\ completed.raised = "") =>
        /\ completed.value = IF completed.state + 1 <= Len(matches.items)
                             THEN matches.items[completed.state + 1]
                             ELSE None
        /\ completed.state = 0 => Last(matches.items) = None
        /\ \A i, j \in 1..Len(matches.items) :
              (i < j /\ matches.items[i] = matches.items[j])
                  => matches.items[i] = None

\* C19: complete never raises, and when its context cannot be resolved the
\* call with state 0 returns None.
C19_NeverRaises ==
    completed.called =>
        /\ completed.raised = ""
        /\ (/\ completed.state = 0
            /\ StartsWith(completed.ln, <<"from", " ">>)
            /\ SplitWords(completed.ln, <<>>)[2] \notin Importable)
               => completed.value = None

\* C20: complete called for a line that is empty or whitespace returns the
\* indent unit at state 0 and None at every other state, whatever the text,
\* the namespace and self.matches are.
C20_BlankLineIndents ==
    BlankCompleted =>
        /\ completed.raised = ""
        /\ completed.value = IF completed.state = 0 THEN ONE_INDENT ELSE None

\* complete returned the indent unit for a whitespace line and a text,
\* with a name in the namespace and after a call that left self.matches None
C20_Witness ==
    /\ completed.called /\ completed.state = 0
    /\ completed.ln = <<" ", " ">> /\ completed.text = <<"foo">>
    /\ completed.value = ONE_INDENT
    /\ matches.none /\ locals = {"foo"}

\* is the entry of SessionHistory blank: empty or whitespace
Blank(entry) == Strip(entry) = <<>>

\* C21: SessionHistory never holds two consecutive blank entries, whatever
\* statements were pushed, buffers reset and artifacts replayed.
C21_NoConsecutiveBlanks ==
    \A i \in 1..(Len(session_history) - 1) :
        ~(Blank(session_history[i]) /\ Blank(session_history[i + 1]))

\* a replay of an artifact with two blank lines in a row has ended and
\* SessionHistory holds one blank entry
C21_Witness ==
    /\ edit.ran /\ edit.replays = 1 /\ pc = "push"
    /\ \E i \in 1..(Len(FileLines(edit.text)) - 1) :
          Blank(FileLines(edit.text)[i]) /\ Blank(FileLines(edit.text)[i + 1])
    /\ \E i \in 1..Len(session_history) : Blank(session_history[i])


\* does this step end the quiet replay of the file of config.VENV_RC
BootstrapReplayEnds == pc = "bootstrap" /\ pc' = "prompt"

\* C22: every step other than the end of the bootstrap replay (a push, a
\* reset of the buffer, a routed command, a toggle, an edit with or without
\* replay, a restart by the supervisor) leaves the previous SessionHistory
\* as a prefix of the new one; the end of the bootstrap replay leaves
\* SessionHistory empty and keeps the bindings the replay created.
C22_AppendOnly ==
    [][IF BootstrapReplayEnds
       THEN session_history' = <<>> /\ locals \subseteq locals'
       ELSE StartsWith(session_history', session_history)]_vars

\* the bootstrap replay has ended with a binding it created, and the loop
\* has not read a line yet
C22_Witness ==
    /\ driver = "session" /\ pc = "prompt" /\ starts = 1 /\ reads = <<>>
    /\ ~replay.active
    /\ session_history = <<>>
    /\ "x" \in locals


\* is the step the push of the line raw_input returned
Submitted == pc = "push" /\ pc' = "prompt"

\* the entries of ls that are not blank, in order
NonBlank(ls) == SelectSeq(ls, LAMBDA l : ~Blank(l))

\* C23: when the push of a line completes a statement (it runs or it
\* raises), every non-blank line of the statement is appended to
\* SessionHistory in input order and the buffer becomes empty; while the
\* statement is incomplete its lines are only in the buffer; routing a line
\* to the handler of a trigger (edit, list, shell, help, toggle) adds no
\* entry to SessionHistory.
C23_Capture ==
    [][/\ (Submitted /\ ~more') =>
              /\ buffer' = <<>>
              /\ StartsWith(session_history', session_history)
              /\ NonBlank(session_history') =
                     NonBlank(session_history) \o NonBlank(Append(buffer, line))
       /\ (Submitted /\ more') =>
              /\ buffer' = Append(buffer, line)
              /\ session_history' = session_history
       /\ (Routed /\ Matches(Last(reads'))) =>
              session_history' = session_history]_vars


\* is the line of a file a comment line
Comment(stmt) == StartsWith(Strip(stmt), <<"#">>)

\* is the step one pass of the replay loop, on the first line left
Replays ==
    /\ pc \in {"replay", "bootstrap"} /\ replay.open_fd # <<>>
    /\ replay'.open_fd = Tail(replay.open_fd)

\* C24: a pass of the replay loop on a comment line executes nothing and
\* leaves the buffer as it was; a pass on a blank line adds the line to the
\* buffer only behind a line that is not blank, so the buffer handed to
\* the executor never gets two blank lines in a row from the artifact, be
\* they at its start or separated by comment lines only.
C24_CommentsAndBlankRuns ==
    [][Replays =>
          /\ Comment(Head(replay.open_fd)) =>
                 /\ buffer' = buffer
                 /\ executed' = executed
                 /\ locals' = locals
          /\ (Blank(Head(replay.open_fd)) /\ buffer' # buffer) =>
                 /\ buffer # <<>>
                 /\ ~Blank(Last(buffer))
                 /\ buffer' = Append(buffer, StripNL(Head(replay.open_fd)))]_vars

\* the replay has passed a file that starts with a blank line and has a
\* second blank line behind comment lines only, and no blank line is in
\* the buffer
C24_Witness ==
    /\ pc = "replay" /\ edit.ran /\ replay.open_fd = <<>>
    /\ Len(FileLines(edit.text)) = 3
    /\ Blank(FileLines(edit.text)[1])
    /\ Comment(FileLines(edit.text)[2])
    /\ Blank(FileLines(edit.text)[3])
    /\ \A i \in 1..Len(buffer) : ~Blank(buffer[i])


\* is the line of a file not blank, not a comment and without leading
\* whitespace
Unindented(stmt) ==
    /\ ~Blank(stmt) /\ ~Comment(stmt)
    /\ Head(stmt) \notin WS

\* C25: during a replay, before any error, a pass of the loop on a
\* non-blank line without leading whitespace flushes the lines pending in
\* the buffer before the line is buffered: their statements are executed
\* and the buffer holds the new line only (or nothing, when the flushed
\* statement raised and the line is captured instead).
C25_UnindentedLineFlushes ==
    [][(Replays /\ ~_skip_subsequent /\ Unindented(Head(replay.open_fd))) =>
          /\ buffer' = IF _skip_subsequent' THEN <<>>
                       ELSE <<StripNL(Head(replay.open_fd))>>
          /\ Compile(buffer) # "syntax" =>
                 executed' = executed \o Exec(Stmts(buffer), locals).ran]_vars


\* the argument of the command line that was routed last
Arg == Strip(CmdArgs(Last(reads')))

\* is the step the routing of an edit command with an argument that is not
\* a usage flag
EditsArg ==
    /\ Routed /\ Matches(Last(reads')) /\ Last(reads')[1] = EDIT_CMD
    /\ Arg # <<>> /\ ~IsUsageFlag(Arg)

\* the calls of os.system among the calls cs, oldest first
SystemCalls(cs) == SelectSeq(cs, LAMBDA e : e.op = "os.system")

\* C26: an edit command with an argument calls the editor exactly once: on
\* the source file of the object, with the line number option, when the
\* argument names an object that has a source file, and on the argument as
\* the file when the argument names nothing; after it nothing is replayed,
\* SessionHistory is as it was and no file is deleted.
C26_EditArgOpensEditorOnce ==
    [][EditsArg =>
          \A a \in {Arg} : \A obj \in {lookup(a, <<"None">>, locals)} :
             (obj = <<"None">> \/ HasSource(obj)) =>
                /\ SystemCalls(calls') =
                       << [op  |-> "os.system",
                           arg |-> IF obj = <<"None">>
                                   THEN <<"EDITOR">> \o a
                                   ELSE <<"EDITOR", "LINE_NUM_OPT">>
                                        \o obj \o <<".py">>] >>
                /\ session_history' = session_history
                /\ pc' = "push" /\ ~replay'.active
                /\ edit'.replays = 0 /\ edit'.unlinks = 0]_vars

\* the edit command was routed with the name of an attribute that is a
\* module, and the editor was called
C26_Witness ==
    /\ pc = "push" /\ "os" \in locals
    /\ reads = << <<EDIT_CMD, " ", "os", ".", "pa", "th">> >>
    /\ Len(SystemCalls(calls)) = 1

\* C27: an edit command with an argument that names an object without a
\* source file (a built-in, a plain value) does not fail: the argument is
\* taken as the name of the file and the editor is opened on it.
C27_NoSourceOpensArgument ==
    [][(/\ EditsArg
        /\ Truthy(lookup(Arg, <<"None">>, locals))
        /\ ~HasSource(lookup(Arg, <<"None">>, locals))) =>
          /\ pc' = "push"
          /\ SystemCalls(calls') =
                 << [op |-> "os.system", arg |-> <<"EDITOR">> \o Arg] >>]_vars

\* the object a dotted name stands for when every component after the
\* first is an attribute of the object before it
RECURSIVE Walk(_, _)
Walk(obj, name) ==
    IF name = <<>> THEN obj
    ELSE Walk(GetAttr(obj, Partition(name), obj), Components(name))

\* C28: lookup of a dotted name resolves the first component in the
\* namespace and every further component as an attribute of the object
\* before it; when the first component is not bound the result is None,
\* whatever other names are bound.
C28_LookupWalksAttributes ==
    [][(driver = "objects" /\ found' # found) =>
          found'.obj =
              IF Get(Partition(found'.name), locals) = <<"None">>
              THEN <<"None">>
              ELSE Walk(Get(Partition(found'.name), locals),
                        Components(found'.name))]_vars


\* is the step the routing of a shell command with an argument that is not
\* a usage flag
ShellsArg ==
    /\ Routed /\ Matches(Last(reads')) /\ Last(reads')[1] = SH_EXEC
    /\ Arg # <<>> /\ ~IsUsageFlag(Arg)

\* the calls of op among the calls cs, oldest first
CallsOf(cs, op) == SelectSeq(cs, LAMBDA e : e.op = op)

\* C29: the shell command 'cd' changes the working directory of the
\* process itself (to its argument, to the home directory without one),
\* spawns no child and leaves '_' as it was; every other non-empty shell
\* command is spawned exactly once and its result is bound to '_'; the
\* failure of either is reported and the session goes on.
C29_CdIsLocalOthersSpawn ==
    [][ShellsArg =>
          /\ pc' = "push" /\ line' = <<>>
          /\ IF Split(Arg)[1] = "cd"
             THEN /\ CallsOf(calls', "os.chdir") =
                        << [op  |-> "os.chdir",
                            arg |-> IF Len(Split(Arg)) = 1 THEN <<"HOME">>
                                    ELSE Tail(Split(Arg))] >>
                  /\ CallsOf(calls', "subprocess.run") = <<>>
                  /\ locals' = locals
                  /\ CallsOf(calls', "os.chdir")[1].arg \notin Directories
                         => "Traceback" \in Range(stderr')
             ELSE /\ CallsOf(calls', "os.chdir") = <<>>
                  /\ IF Split(Arg)[1] \in Programs
                     THEN /\ CallsOf(calls', "subprocess.run") =
                                << [op |-> "subprocess.run",
                                    arg |-> Split(Arg)] >>
                          /\ locals' = locals \cup {"_"}
                     ELSE "Traceback" \in Range(stderr')]_vars

\* cd to a directory that exists was routed in a namespace that binds
\* names, and os.chdir was called
C29_Witness ==
    /\ pc = "push" /\ locals # {}
    /\ reads = << <<SH_EXEC, "cd", " ", "/", "tmp">> >>
    /\ Len(CallsOf(calls, "os.chdir")) = 1
    /\ stderr = <<>>


\* does the step decrement 'retries': an exception has left the loop
Faulted == retries' # retries

\* C30: a fault in the interactive loop does not end the session while the
\* retry budget remains: the loop is started again on the same console,
\* with the namespace and SessionHistory as they were; the loop is started
\* at most 2 times in all and the budget never grows; once the budget is
\* spent, at the end of the input and at SystemExit the session is
\* terminated, and it stays so.
C30_SupervisorRestartsTwice ==
    [][/\ starts' <= 2
       /\ retries' <= retries
       /\ starts' >= starts
       /\ (Faulted /\ retries > 1) =>
              /\ pc' = "prompt" /\ ~more'
              /\ starts' = starts + 1
              /\ locals' = locals
              /\ session_history' = session_history
       /\ (Faulted /\ retries = 1) => pc' = "terminated"
       /\ (pc = "prompt" /\ "now exiting ImprovedConsole..." \in Range(stderr'))
              => pc' = "terminated"
       /\ (pc = "prompt" /\ <<"quit()">> \in Range(executed'))
              => pc' = "terminated"
       /\ (pc' = "terminated" /\ pc # "terminated") =>
              \/ retries' = 0
              \/ ~Faulted
       /\ pc = "terminated" => pc' = "terminated"]_vars

\* the loop runs for the second time, after a fault, with the bindings and
\* the SessionHistory of the first run
C30_Witness ==
    /\ driver = "session" /\ pc = "prompt"
    /\ starts = 2 /\ retries = 1
    /\ locals # {} /\ session_history # <<>>

\* the line starts with a trigger token
BeginsWithTrigger(l) == l # <<>> /\ l[1] \in Triggers

\* the browser queries among the calls cs
BrowserCalls(cs) == SelectSeq(cs, LAMBDA e : e.op = "webbrowser.open")

\* the trigger rule fired: the handler of the line's trigger was called
\* first and the empty line is returned
TriggerRuleFired(l) ==
    /\ HandlerCalls(calls') # <<>>
    /\ HandlerCalls(calls')[1].op = Handler(l[1])
    /\ line' = <<>>

\* the doc rule fired: the line was rewritten to a doc expression, or the
\* browser was opened and the empty line is returned
DocRuleFired(l) ==
    \/ /\ ~EndsWith(l, <<DOC_CMD, DOC_CMD>>)
       /\ line' = DocLine(DocTarget(l))
       /\ BrowserCalls(calls') = <<>>
    \/ /\ EndsWith(l, <<DOC_CMD, DOC_CMD>>)
       /\ Len(BrowserCalls(calls')) = 1
       /\ line' = <<>>

\* the indent rule fired: the tracked indent follows the line, which is
\* returned as typed, or dedented when it is blank
IndentRuleFired(l) ==
    /\ _indent' = IF Strip(l) = <<>> THEN DropOneIndent(_indent)
                  ELSE LeadingSpace(l)
    /\ line' = IF Strip(l) = <<>> THEN _indent' ELSE l

\* C31: the router applies its rules in the order trigger, doc, indent and
\* one rule fires per line. A line that begins with a trigger is dispatched
\* to the handler of the trigger even when it ends in '?' or '??': it is
\* not rewritten, no browser is opened and, unless the help handler pushes,
\* the tracked indent is left alone. A line that does not begin with a
\* trigger and ends in '?' is rewritten or sent to the browser, calls no
\* handler and leaves the tracked indent alone even when it is indented.
\* Any other line calls no handler, opens no browser and is returned as
\* typed, or as the dedented indent when it is blank.
C31_RulePrecedence ==
    [][Routed =>
         \A l \in {Last(reads')} :
            /\ BeginsWithTrigger(l) =>
                  /\ TriggerRuleFired(l)
                  /\ BrowserCalls(calls') = <<>>
                  /\ l[1] # HELP_CMD => _indent' = _indent
            /\ (~BeginsWithTrigger(l) /\ EndsWith(l, <<DOC_CMD>>)) =>
                  /\ DocRuleFired(l)
                  /\ HandlerCalls(calls') = <<>>
                  /\ _indent' = _indent
            /\ (~BeginsWithTrigger(l) /\ ~EndsWith(l, <<DOC_CMD>>)) =>
                  /\ HandlerCalls(calls') = <<>>
                  /\ BrowserCalls(calls') = <<>>
                  /\ (AUTO_INDENT /\ (StartsWith(l, ONE_INDENT)
                                      \/ _indent # <<>>))
                        => IndentRuleFired(l)
                  /\ ~(AUTO_INDENT /\ (StartsWith(l, ONE_INDENT)
                                       \/ _indent # <<>>))
                        => (line' = l /\ _indent' = _indent)]_vars

\* a line that begins with a trigger and ends in '?' was routed inside a
\* block: its handler was called and the tracked indent is still one unit
C31_Witness ==
    /\ pc = "push"
    /\ reads # <<>>
    /\ BeginsWithTrigger(Last(reads))
    /\ EndsWith(Last(reads), <<DOC_CMD>>)
    /\ HandlerCalls(calls) # <<>>
    /\ line = <<>>
    /\ _indent = ONE_INDENT

\* an indented line that ends in '?' was routed: it was rewritten and the
\* tracked indent did not follow it
C31_WitnessDoc ==
    /\ pc = "push"
    /\ reads # <<>>
    /\ StartsWith(Last(reads), ONE_INDENT)
    /\ EndsWith(Last(reads), <<DOC_CMD>>)
    /\ line = DocLine(DocTarget(Last(reads)))
    /\ _indent = <<>>

\* is the step one call of push: by the interactive loop or by a caller
\* that pushes a line directly
Pushed ==
    \/ pc = "push" /\ pc' = "prompt"
    \/ driver = "tests" /\ used' = used + 1

\* the number of opening tokens of a line
OpenersIn(l) ==
    Cardinality({i \in 1..Len(l) : l[i] \in {":", "[", "{", "("}})

\* C32: one push resets the tracked indent to empty, leaves it as it is or
\* appends exactly one indent unit to it, however many opening tokens the
\* pushed line contains; a line with several opening tokens that leaves the
\* statement incomplete appends one unit.
C32_AtMostOneUnitPerPush ==
    [][Pushed =>
         /\ _indent' \in {<<>>, _indent, _indent \o ONE_INDENT}
         /\ (IncompletePush /\ OpenersIn(Last(buffer')) > 1)
               => _indent' = _indent \o ONE_INDENT]_vars

\* a line of three opening tokens was pushed after a line with one: the
\* tracked indent is two units, one for each push
C32_Witness ==
    /\ driver = "tests"
    /\ buffer = << <<"(">>, <<"(", "[", "{">> >>
    /\ more
    /\ _indent = ONE_INDENT \o ONE_INDENT

\* the context of a completion, by the priority import statement,
\* exception name, path, attribute, default
ContextOf(txt, l) ==
    IF StartsWith(l, <<"from", " ">>) \/ StartsWith(l, <<"import", " ">>)
    THEN "import"
    ELSE IF SplitWords(l, <<>>)[1] \in {<<"raise">>, <<"except">>}
    THEN "exception"
    ELSE IF "/" \in Range(txt) THEN "path"
    ELSE IF "." \in Range(txt) THEN "attribute"
    ELSE "default"

\* the candidates of one context
CandidatesOf(ctx, txt, l, ns) ==
    CASE ctx = "import"    -> get_import_matches(txt, SplitWords(l, <<>>)).items
      [] ctx = "exception" -> startswith_filter(LStripSet(txt, {"("}),
                                                exceptions("Exception"), <<>>)
      [] ctx = "path"      -> get_path_matches(txt)
      [] ctx = "attribute" -> attr_matches(txt, ns)
      [] ctx = "default"   -> global_matches(txt, ns)

\* C33: a call of complete with state 0 for a line that is not blank, when
\* it returns, leaves in self.matches the candidates of one context only,
\* followed by None: the context chosen by the priority import statement,
\* exception name, path, attribute, default; the value returned is the
\* first entry of that list. A text with a path separator and a '.' on a
\* line that is neither an import nor a raise/except line gets the
\* candidates of the path.
C33_ContextByPriority ==
    (/\ completed.called /\ completed.state = 0
     /\ ~BlankCompleted /\ completed.raised = "")
        => \A cs \in {CandidatesOf(ContextOf(completed.text, completed.ln),
                                   completed.text, completed.ln, locals)} :
              /\ matches.items = Append(cs, None)
              /\ completed.value = Append(cs, None)[1]

\* a text with a path separator and a '.' was completed on a line that is
\* no import and no raise/except line: the file is returned
C33_Witness ==
    /\ completed.called /\ completed.state = 0
    /\ completed.text = <<"/", "tmp", "/", "a", ".">>
    /\ completed.ln = <<"x", " ", "/", "tmp", "/", "a", ".">>
    /\ completed.value = <<"/", "tmp", "/", "a", ".", "b">>
    /\ attr_matches(completed.text, locals) = <<>>

\* a text with a '.' after a bound name was completed on a raise line: no
\* attribute of the name is among the candidates
C33_WitnessRaise ==
    /\ completed.called /\ completed.state = 0
    /\ completed.ln = <<"raise", " ", "foo", ".">>
    /\ locals = {"foo"}
    /\ attr_matches(completed.text, locals) # <<>>
    /\ matches.items = <<None>>

\* the lines of an artifact that hold code: without the "\n", neither blank
\* nor a comment
CodeLines(text) ==
    SelectSeq([i \in 1..Len(FileLines(text)) |-> StripNL(FileLines(text)[i])],
              LAMBDA l : ~Blank(l) /\ ~Comment(l))

\* is the artifact made of complete statements that do not fail: simple
\* statements that bind a name, and blocks whose header is followed by
\* their indented statements
CompleteNonFailing(text) ==
    \A ls \in {CodeLines(text)} :
       /\ ls # <<>>
       /\ \A i \in 1..Len(ls) :
             \/ ls[i] \in {<<"x">>, <<"z">>}
             \/ ls[i] = If /\ i < Len(ls) /\ ls[i + 1] = ONE_INDENT \o <<"x">>
             \/ /\ ls[i] = ONE_INDENT \o <<"x">>
                /\ i > 1
                /\ ls[i - 1] \in {If, ONE_INDENT \o <<"x">>}

\* the statements of the artifact, in its order: the code lines that are
\* not the header of a block
StatementsOf(text) ==
    SelectSeq([i \in 1..Len(CodeLines(text)) |-> Strip(CodeLines(text)[i])],
              LAMBDA l : l # If)

\* the replay of the edited file has finished
ReplayFinished == pc = "push" /\ edit.ran /\ edit.replays = 1

\* C34: when the replay of an artifact that holds only complete statements
\* that do not fail has finished, every statement of the artifact has been
\* executed, in the order of the artifact and the last one included, and
\* the pending buffer is empty.
C34_ReplayExecutesEveryStatement ==
    (ReplayFinished /\ CompleteNonFailing(edit.text)) =>
        /\ executed = StatementsOf(edit.text)
        /\ buffer = <<>>

\* the part that holds: the same for a replay that starts with an empty
\* pending buffer (the edit command was typed at the primary prompt), of an
\* artifact in which every block is followed by a blank line or the end of
\* the file
C34_SimpleArtifactExecuted ==
    (/\ ReplayFinished /\ CompleteNonFailing(edit.text) /\ ~more
     /\ \A i \in 1..(Len(FileLines(edit.text)) - 1) :
           \A a \in {StripNL(FileLines(edit.text)[i])},
              b \in {StripNL(FileLines(edit.text)[i + 1])} :
              (StartsWith(a, ONE_INDENT) /\ ~Blank(a)) =>
                  (Blank(b) \/ StartsWith(b, ONE_INDENT))) =>
        /\ executed = StatementsOf(edit.text)
        /\ buffer = <<>>

\* the replay of an artifact whose last statement has no newline behind it
\* has finished and the statement was executed
C34_Witness ==
    /\ ReplayFinished
    /\ edit.text = <<"x", "\n", "z">>
    /\ executed = << <<"x">>, <<"z">> >>
    /\ buffer = <<>>

\* the lines added to the history of readline by the current handler,
\* oldest first
AddedHistory(cs) ==
    [i \in 1..Len(SelectSeq(cs, LAMBDA e : e.op = "readline.add_history")) |->
        SelectSeq(cs, LAMBDA e : e.op = "readline.add_history")[i].arg]

\* is the line of this pass of the replay loop handed to the pending
\* buffer: it is no collapsed blank line, no comment, and no error has been
\* reported when it is to be kept
Handed ==
    /\ ~SkipBlank(Strip(Head(replay.open_fd)), replay.previous)
    /\ ~Comment(Head(replay.open_fd))
    /\ ~_skip_subsequent'

\* do the pending lines form a complete statement that raises when it runs
WillRaise(buf) ==
    /\ buf # <<>>
    /\ Compile(buf) = "code"
    /\ Exec(Stmts(buf), locals).error

\* every pass of a replay adds to the history of readline the line it hands
\* to the pending buffer and nothing else, and a bootstrap replay adds
\* nothing
ExactlyHandedAdded ==
    Replays =>
       /\ pc = "bootstrap" => AddedHistory(calls') = <<>>
       /\ pc = "replay" =>
             /\ AddedHistory(calls') =
                   IF Handed
                   THEN Append(AddedHistory(calls),
                               StripNL(Head(replay.open_fd)))
                   ELSE AddedHistory(calls)
             /\ Handed => Last(buffer') = StripNL(Head(replay.open_fd))

\* C35: during a replay exactly the lines handed to the pending buffer are
\* added to the history of readline, in the order of the artifact; a
\* comment line, a collapsed blank line and a line that comes after the
\* first failing statement (the failure was reported, or the statement that
\* fails is complete in the pending buffer) are not added, and a bootstrap
\* replay adds nothing.
C35_ReplayHistory ==
    [][/\ ExactlyHandedAdded
       /\ (/\ Replays
           /\ \/ Comment(Head(replay.open_fd))
              \/ SkipBlank(Strip(Head(replay.open_fd)), replay.previous)
              \/ _skip_subsequent
              \/ WillRaise(buffer))
             => AddedHistory(calls') = AddedHistory(calls)]_vars

\* C35, amended: as C35, where the lines that are not added after the first
\* failing statement are those read once its failure has been reported or
\* is reported in the same pass; a blank line that directly follows the
\* failing statement is read before the statement runs, is handed to the
\* buffer and is added.
C35_ReplayHistoryAmended ==
    [][/\ ExactlyHandedAdded
       /\ (/\ Replays
           /\ \/ Comment(Head(replay.open_fd))
              \/ SkipBlank(Strip(Head(replay.open_fd)), replay.previous)
              \/ _skip_subsequent
              \/ _skip_subsequent')
             => AddedHistory(calls') = AddedHistory(calls)
       /\ (/\ Replays /\ pc = "replay" /\ ~_skip_subsequent
           /\ WillRaise(buffer) /\ Blank(Head(replay.open_fd))
           /\ ~SkipBlank(Strip(Head(replay.open_fd)), replay.previous))
             => AddedHistory(calls') = Append(AddedHistory(calls), <<>>)]_vars

\* the replay of a failing statement, a blank line and a further statement
\* has read its last line: the failing statement and the blank line were
\* added to the history of readline, the statement behind them was not
C35_Witness ==
    /\ pc = "replay" /\ replay.open_fd = <<>>
    /\ edit.text = <<"err", "\n", "\n", "z">>
    /\ _skip_subsequent
    /\ AddedHistory(calls) = << <<"err">>, <<>> >>

\* the bootstrap replay has read a file of two lines and nothing was added
\* to the history of readline
C35_WitnessBootstrap ==
    /\ pc = "bootstrap" /\ replay.open_fd = <<>>
    /\ Len(buffer) = 2
    /\ AddedHistory(calls) = <<>>

\* is the step the routing of the toggle command, not of its usage flag
Toggles ==
    /\ Routed
    /\ StartsWith(Last(reads'), <<TOGGLE_AUTO_INDENT_CMD>>)
    /\ ~IsUsageFlag(Strip(CmdArgs(Last(reads'))))

\* C36: the pre-input hook is installed exactly when the auto-indent flag
\* is true, in every state; the routing of a toggle command flips the flag,
\* returns the empty line and leaves the tracked indent, the pending buffer
\* and SessionHistory as they were, so that two toggles in a row restore
\* the flag and the hook; at the primary prompt the push of the empty line
\* that follows changes none of the three either.
C36_ToggleFlipsFlagAndHook ==
    /\ [](pre_input_hook = AUTO_INDENT)
    /\ [][/\ Toggles =>
                /\ AUTO_INDENT' = ~AUTO_INDENT
                /\ pre_input_hook' = ~pre_input_hook
                /\ line' = <<>>
                /\ _indent' = _indent
                /\ buffer' = buffer
                /\ session_history' = session_history
          /\ (/\ Submitted /\ ~more
              /\ reads # <<>> /\ Last(reads) = <<TOGGLE_AUTO_INDENT_CMD>>) =>
                /\ _indent' = _indent
                /\ buffer' = buffer
                /\ session_history' = session_history
                /\ AUTO_INDENT' = AUTO_INDENT]_vars

\* the toggle command was routed inside a block and enabled auto-indent
\* again: it was disabled by an earlier toggle, the hook is installed and
\* the pending block and the tracked indent are still there
C36_Witness ==
    /\ pc = "push"
    /\ reads # <<>> /\ Last(reads) = <<TOGGLE_AUTO_INDENT_CMD>>
    /\ AUTO_INDENT /\ pre_input_hook
    /\ buffer # <<>>
    /\ _indent = ONE_INDENT
    /\ line = <<>>

\* the entries a process has added to the history of its readline since it
\* started
NewEntries(s) ==
    SubSeq(sessions[s].history, sessions[s].len_at_start + 1,
           Len(sessions[s].history))

\* the entries a process read from the file when it started
ReadAtStart(s) == SubSeq(sessions[s].history, 1, sessions[s].len_at_start)

\* is the step the exit of the process s
Exits(s) == sessions[s].pc = "running" /\ sessions'[s].pc = "exited"

\* both processes have exited, and they had started from the same file:
\* neither started after the other had exited
BothExited ==
    /\ \A s \in Sessions : sessions[s].pc = "exited"
    /\ ReadAtStart("a") = ReadAtStart("b")

\* C37: a process that exits appends to the history file exactly the
\* entries it added to the history of its readline since it started, and
\* the content the file had stays in front of them; when two processes that
\* started from the same file have exited, in either order, the file holds
\* the entries it had at their start followed by the new entries of the one
\* and then of the other, none lost and none twice.
C37_ConcurrentSessionsAppend ==
    /\ [][\A s \in Sessions :
             Exits(s) => histfile'.entries = histfile.entries \o NewEntries(s)]_vars
    /\ [](BothExited =>
             histfile.entries \in
                { ReadAtStart("a") \o NewEntries("a") \o NewEntries("b"),
                  ReadAtStart("a") \o NewEntries("b") \o NewEntries("a") })

\* the part that holds: the same when the file exists at the exit of a
\* process
C37_ExistingFileAppended ==
    /\ [][\A s \in Sessions :
             (Exits(s) /\ histfile.exists) =>
                 /\ histfile'.entries = histfile.entries \o NewEntries(s)
                 /\ ~sessions'[s].raised]_vars
    /\ [](BothExited /\ histfile.exists =>
             histfile.entries \in
                { ReadAtStart("a") \o NewEntries("a") \o NewEntries("b"),
                  ReadAtStart("a") \o NewEntries("b") \o NewEntries("a") })

\* two processes started from a file with one entry, each added entries,
\* the second one exited first, and the file holds them all
C37_Witness ==
    /\ BothExited
    /\ histfile.entries = <<"h1", "b1", "a1", "a2">>

\* two processes started without a history file, added entries and exited:
\* both appends raised and there is still no file
C37_WitnessNoFile ==
    /\ BothExited
    /\ \A s \in Sessions : NewEntries(s) # <<>> /\ sessions[s].raised
    /\ ~histfile.exists

====
